---- MODULE Spec2Model ----
(***************************************************************************)
(* Model of the oracle contract of fluxprotocol/oracle-monorepo-near:      *)
(* the data request registry (Contract), the data request life cycle       *)
(* (ActiveDataRequest / FinalizedDataRequest) and the resolution windows.  *)
(*                                                                         *)
(* A call that panics is rolled back by the host: it is no step at all.    *)
(* For every entry point f the operator f_err gives the message of the     *)
(* first assertion / unwrap that fails ("" when none does), in the order   *)
(* in which the code evaluates them; the action f is enabled when f_err    *)
(* is "".                                                                   *)
(* The LookupMaps of a window live in contract storage under a prefix that *)
(* is fixed by (dr_id, round); a write to them is persistent as soon as    *)
(* it is made, so they are modelled as fields of the window.               *)
(***************************************************************************)
EXTENDS Integers, Sequences, FiniteSets, TLC

VARIABLES
    configs,          \* Contract.configs: Vector<OracleConfig>
    whitelist,        \* Contract.whitelist: Whitelist(Option<LookupMap<AccountId, Requester>>)
    data_requests,    \* Contract.data_requests: Vector<DataRequest>
    paused,           \* Contract.paused
    block_timestamp,  \* env::block_timestamp()
    claim_log,        \* history: per request and account, what dr_claim paid so far
    finalize_log,     \* history: per request, the calls that finalized it and their outcome
    stake_log,        \* history: the value the last dr_stake returned
    ledger,           \* history: per request, the tokens received minus the tokens sent out
    call_log,         \* history: the last successful call of the entry points in inputs.trace
    inputs            \* the inputs the environment draws its calls from (fixed by Init)

vars == <<configs, whitelist, data_requests, paused, block_timestamp, claim_log, finalize_log,
         stake_log, ledger, call_log, inputs>>

----------------------------------------------------------------------------
(* Bounds of the model *)

MaxTime == 2          \* block_timestamp ranges over 0..MaxTime
MaxAmount == 2        \* largest amount attached to a stake / unstake call

----------------------------------------------------------------------------
(* Accounts *)

Stakers == {"alice", "bob"}
TokenAccount == "token"
GovAccount == "gov"
RequesterAccount == "carol"
Accounts == Stakers \cup {TokenAccount, GovAccount, RequesterAccount}

----------------------------------------------------------------------------
(* Outcome = Answer(AnswerType) | Invalid ; Option<Outcome> adds None *)

OutString(v) == [kind |-> "String", value |-> v, multiplier |-> 0]
OutNumber(v, m) == [kind |-> "Number", value |-> v, multiplier |-> m]
OutInvalid == [kind |-> "Invalid", value |-> "", multiplier |-> 0]
NoOutcome == [kind |-> "None", value |-> "", multiplier |-> 0]

OutA == OutString("a")
OutB == OutString("b")
OutC == OutString("c")
OutNum == OutNumber("1", 1)

Outcomes == {OutA, OutB, OutInvalid, OutC, OutNum}

TypeString == [kind |-> "String", multiplier |-> 0]
TypeNumber(m) == [kind |-> "Number", multiplier |-> m]

NoMultiplier == [some |-> FALSE, value |-> 0]   \* Requester.stake_multiplier = None
SomeMultiplier(m) == [some |-> TRUE, value |-> m]
NoProvider == ""                                \* provider = None
NoOutcomeList == [some |-> FALSE, list |-> {}]  \* outcomes = None
SomeOutcomeList(l) == [some |-> TRUE, list |-> l]

----------------------------------------------------------------------------
(* helpers *)

Min(a, b) == IF a < b THEN a ELSE b

RECURSIVE FirstErr(_)
FirstErr(errs) ==
    IF errs = <<>> THEN ""
    ELSE IF Head(errs) # "" THEN Head(errs)
    ELSE FirstErr(Tail(errs))

RECURSIVE SumOver(_, _)
SumOver(S, f) ==
    IF S = {} THEN 0
    ELSE LET x == CHOOSE y \in S : TRUE IN f[x] + SumOver(S \ {x}, f)

calc_product(a, b, divisor) == (a * b) \div divisor

PercentageDivisor == 100

multiply_stake(stake, multiplier) ==
    IF multiplier.some THEN calc_product(stake, multiplier.value, PercentageDivisor)
    ELSE stake

Transfer(token, receiver, amount) ==
    [kind |-> "ft_transfer", token |-> token, receiver |-> receiver,
     amount |-> amount, outcome |-> NoOutcome]

SetOutcome(requester, outcome) ==
    [kind |-> "set_outcome", token |-> "", receiver |-> requester,
     amount |-> 0, outcome |-> outcome]

\* the amount of tokens that a sequence of promises transfers out of the oracle
RECURSIVE Sent(_)
Sent(promises) ==
    IF promises = <<>> THEN 0 ELSE Head(promises).amount + Sent(Tail(promises))

NoClaim == [payment_token_payout |-> 0, stake_token_payout |-> 0]


----------------------------------------------------------------------------
(* ResolutionWindow (resolution_window.rs) *)

\* faulty variant: the bond is not doubled from one round to the next
ResolutionWindow_new_same_bond(dr_id, round, prev_bond, challenge_period, start_time) ==
    [dr_id |-> dr_id,
     round |-> round,
     start_time |-> start_time,
     end_time |-> start_time + challenge_period,
     bond_size |-> prev_bond,
     outcome_to_stake |-> [o \in Outcomes |-> 0],
     user_to_outcome_to_stake |-> [a \in Accounts |-> [o \in Outcomes |-> 0]],
     bonded_outcome |-> NoOutcome]

ResolutionWindow_new(dr_id, round, prev_bond, challenge_period, start_time) ==
    [dr_id |-> dr_id,
     round |-> round,
     start_time |-> start_time,
     end_time |-> start_time + challenge_period,
     bond_size |-> prev_bond * 2,
     outcome_to_stake |-> [o \in Outcomes |-> 0],
     user_to_outcome_to_stake |-> [a \in Accounts |-> [o \in Outcomes |-> 0]],
     bonded_outcome |-> NoOutcome]

\* faulty variant: the sender is credited the whole amount, not the accepted part
stake_credits_amount(w, sender, outcome, amount) ==
    LET stake_on_outcome == w.outcome_to_stake[outcome]
        stake_open == w.bond_size - stake_on_outcome
        unspent == IF amount > stake_open THEN amount - stake_open ELSE 0
        new_stake_on_outcome == stake_on_outcome + (amount - unspent)
        w1 == [w EXCEPT !.outcome_to_stake[outcome] = new_stake_on_outcome,
                        !.user_to_outcome_to_stake[sender][outcome] = @ + amount]
    IN  [window |-> IF new_stake_on_outcome = w.bond_size
                    THEN [w1 EXCEPT !.bonded_outcome = outcome]
                    ELSE w1,
         unspent |-> unspent]

\* faulty variant: every stake prolongs the window
stake_prolongs_window(w, sender, outcome, amount) ==
    LET stake_open == w.bond_size - w.outcome_to_stake[outcome]
        unspent == IF amount > stake_open THEN amount - stake_open ELSE 0
        new_stake_on_outcome == w.outcome_to_stake[outcome] + (amount - unspent)
        w1 == [w EXCEPT !.outcome_to_stake[outcome] = new_stake_on_outcome,
                        !.user_to_outcome_to_stake[sender][outcome] = @ + (amount - unspent),
                        !.end_time = @ + 1]
    IN  [window |-> IF new_stake_on_outcome = w.bond_size
                    THEN [w1 EXCEPT !.bonded_outcome = outcome]
                    ELSE w1,
         unspent |-> unspent]

\* faulty variant: the room is taken to be the whole bond, whatever is staked already
stake_ignores_room(w, sender, outcome, amount) ==
    LET stake_open == w.bond_size
        unspent == IF amount > stake_open THEN amount - stake_open ELSE 0
        new_stake_on_outcome == w.outcome_to_stake[outcome] + (amount - unspent)
        w1 == [w EXCEPT !.outcome_to_stake[outcome] = new_stake_on_outcome,
                        !.user_to_outcome_to_stake[sender][outcome] = @ + (amount - unspent)]
    IN  [window |-> IF new_stake_on_outcome = w.bond_size
                    THEN [w1 EXCEPT !.bonded_outcome = outcome]
                    ELSE w1,
         unspent |-> unspent]

\* the caller has checked nothing: stake_open underflows (panic) only when the
\* outcome already holds more than bond_size, which stake itself never produces
ResolutionWindow_stake(w, sender, outcome, amount) ==
    LET stake_on_outcome == w.outcome_to_stake[outcome]
        user_stake_on_outcome == w.user_to_outcome_to_stake[sender][outcome]
        stake_open == w.bond_size - stake_on_outcome
        unspent == IF amount > stake_open THEN amount - stake_open ELSE 0
        staked == amount - unspent
        new_stake_on_outcome == stake_on_outcome + staked
        new_user_stake_on_outcome == user_stake_on_outcome + staked
        w1 == [w EXCEPT !.outcome_to_stake[outcome] = new_stake_on_outcome,
                        !.user_to_outcome_to_stake[sender][outcome] = new_user_stake_on_outcome]
        w2 == IF new_stake_on_outcome = w.bond_size
              THEN [w1 EXCEPT !.bonded_outcome = outcome]
              ELSE w1
    IN  [window |-> w2, unspent |-> unspent]

\* faulty variant: stake on the bonded outcome can be withdrawn
unstake_err_any_outcome(w, sender, outcome, amount) ==
    IF ~(w.user_to_outcome_to_stake[sender][outcome] >= amount)
    THEN "has less staked on this outcome than unstake amount"
    ELSE ""

ResolutionWindow_unstake_err(w, sender, outcome, amount) ==
    IF ~(w.bonded_outcome = NoOutcome \/ w.bonded_outcome # outcome)
    THEN "Cannot withdraw from bonded outcome"
    ELSE IF ~(w.user_to_outcome_to_stake[sender][outcome] >= amount)
    THEN "has less staked on this outcome than unstake amount"
    ELSE IF w.outcome_to_stake[outcome] - amount < 0
    THEN "attempt to subtract with overflow"
    ELSE ""

ResolutionWindow_unstake(w, sender, outcome, amount) ==
    LET user_stake_on_outcome == w.user_to_outcome_to_stake[sender][outcome]
        stake_on_outcome == w.outcome_to_stake[outcome]
        new_stake_on_outcome == stake_on_outcome - amount
        new_user_stake_on_outcome == user_stake_on_outcome - amount
    IN  [window |-> [w EXCEPT !.outcome_to_stake[outcome] = new_stake_on_outcome,
                              !.user_to_outcome_to_stake[sender][outcome] = new_user_stake_on_outcome],
         amount |-> amount]

NoResult == [kind |-> "NoResult", bonded_stake |-> 0, user_stake |-> 0]

\* faulty variant: the bonded stake is taken to be what the accounts still hold
\* on the bonded outcome, not the window's bond_size
claim_for_remaining_stake(w, account_id, final_outcome) ==
    IF w.bonded_outcome # NoOutcome
    THEN LET remaining == SumOver(Accounts, [a \in Accounts |->
                                     w.user_to_outcome_to_stake[a][w.bonded_outcome]])
         IN  IF w.bonded_outcome = final_outcome
             THEN [window |-> [w EXCEPT !.user_to_outcome_to_stake[account_id][w.bonded_outcome] = 0],
                   result |-> [kind |-> "Correct",
                               bonded_stake |-> remaining,
                               user_stake |-> w.user_to_outcome_to_stake[account_id][w.bonded_outcome]]]
             ELSE [window |-> w,
                   result |-> [kind |-> "Incorrect", bonded_stake |-> remaining, user_stake |-> 0]]
    ELSE [window |-> w, result |-> NoResult]

\* faulty variant: the claimant's stake is read but not removed
claim_for_keeps_stake(w, account_id, final_outcome) ==
    IF w.bonded_outcome # NoOutcome
    THEN IF w.bonded_outcome = final_outcome
         THEN [window |-> w,
               result |-> [kind |-> "Correct",
                           bonded_stake |-> w.bond_size,
                           user_stake |-> w.user_to_outcome_to_stake[account_id][w.bonded_outcome]]]
         ELSE [window |-> w,
               result |-> [kind |-> "Incorrect", bonded_stake |-> w.bond_size, user_stake |-> 0]]
    ELSE [window |-> w, result |-> NoResult]

claim_for(w, account_id, final_outcome) ==
    IF w.bonded_outcome # NoOutcome
    THEN IF w.bonded_outcome = final_outcome
         THEN [window |-> [w EXCEPT !.user_to_outcome_to_stake[account_id][w.bonded_outcome] = 0],
               result |-> [kind |-> "Correct",
                           bonded_stake |-> w.bond_size,
                           user_stake |-> w.user_to_outcome_to_stake[account_id][w.bonded_outcome]]]
         ELSE [window |-> w,
               result |-> [kind |-> "Incorrect", bonded_stake |-> w.bond_size, user_stake |-> 0]]
    ELSE [window |-> w, result |-> NoResult]

----------------------------------------------------------------------------
(* ActiveDataRequest (data_request.rs) *)

\* faulty variant: min_resolution_bond is not taken into account
calc_bond_without_minimum(dr) ==
    LET base_bond == IF dr.request_config.paid_fee >= dr.request_config.validity_bond
                     THEN dr.request_config.paid_fee
                     ELSE dr.request_config.validity_bond
    IN  multiply_stake(base_bond, dr.request_config.stake_multiplier)

calc_resolution_bond(dr) ==
    LET base_bond == IF dr.request_config.paid_fee >= dr.request_config.validity_bond
                     THEN dr.request_config.paid_fee
                     ELSE dr.request_config.validity_bond
        res_bond == IF base_bond < dr.request_config.min_resolution_bond
                    THEN dr.request_config.min_resolution_bond
                    ELSE base_bond
    IN  multiply_stake(res_bond, dr.request_config.stake_multiplier)

\* faulty variant: the final arbitrator is never invoked
invoke_never(dr, bond_size) == [dr |-> dr, triggered |-> dr.final_arbitrator_triggered]

\* @returns the request after the call and whether the final arbitrator is triggered
invoke_final_arbitrator(dr, bond_size) ==
    LET should_invoke == bond_size >= dr.request_config.final_arbitrator_invoke_amount
        dr1 == IF should_invoke THEN [dr EXCEPT !.final_arbitrator_triggered = TRUE] ELSE dr
    IN  [dr |-> dr1, triggered |-> dr1.final_arbitrator_triggered]

\* faulty variant: every window after round 0 gets the default duration
stake_default_from_round1(dr, sender, outcome, amount, now) ==
    LET n == Len(dr.resolution_windows)
        window == IF n = 0
                  THEN ResolutionWindow_new(dr.id, 0, calc_resolution_bond(dr),
                                            dr.initial_challenge_period, now)
                  ELSE dr.resolution_windows[n]
        staked == ResolutionWindow_stake(window, sender, outcome, amount)
        w == staked.window
        dr1 == IF n = 0
               THEN [dr EXCEPT !.resolution_windows = Append(@, w)]
               ELSE [dr EXCEPT !.resolution_windows[n] = w]
        inv == invoke_final_arbitrator(dr1, w.bond_size)
        \* && short-circuits: invoke_final_arbitrator only runs for a bonded window
        dr2 == IF w.bonded_outcome # NoOutcome THEN inv.dr ELSE dr1
        len2 == Len(dr2.resolution_windows)
        duration == dr2.request_config.default_challenge_window_duration
        dr3 == IF w.bonded_outcome # NoOutcome /\ ~inv.triggered
               THEN [dr2 EXCEPT !.resolution_windows =
                        Append(@, ResolutionWindow_new(dr2.id, len2, w.bond_size, duration, now))]
               ELSE dr2
    IN  [dr |-> dr3, unspent |-> staked.unspent]

\* faulty variant: every window gets the request's initial challenge period
stake_initial_for_all_rounds(dr, sender, outcome, amount, now) ==
    LET n == Len(dr.resolution_windows)
        window == IF n = 0
                  THEN ResolutionWindow_new(dr.id, 0, calc_resolution_bond(dr),
                                            dr.initial_challenge_period, now)
                  ELSE dr.resolution_windows[n]
        staked == ResolutionWindow_stake(window, sender, outcome, amount)
        w == staked.window
        dr1 == IF n = 0
               THEN [dr EXCEPT !.resolution_windows = Append(@, w)]
               ELSE [dr EXCEPT !.resolution_windows[n] = w]
        inv == invoke_final_arbitrator(dr1, w.bond_size)
        \* && short-circuits: invoke_final_arbitrator only runs for a bonded window
        dr2 == IF w.bonded_outcome # NoOutcome THEN inv.dr ELSE dr1
        len2 == Len(dr2.resolution_windows)
        duration == dr2.initial_challenge_period
        dr3 == IF w.bonded_outcome # NoOutcome /\ ~inv.triggered
               THEN [dr2 EXCEPT !.resolution_windows =
                        Append(@, ResolutionWindow_new(dr2.id, len2, w.bond_size, duration, now))]
               ELSE dr2
    IN  [dr |-> dr3, unspent |-> staked.unspent]

\* faulty variant: the unspent part of the amount is staked into the window that is opened
stake_carries_unspent(dr, sender, outcome, amount, now) ==
    LET n == Len(dr.resolution_windows)
        window == IF n = 0
                  THEN ResolutionWindow_new(dr.id, 0, calc_resolution_bond(dr),
                                            dr.initial_challenge_period, now)
                  ELSE dr.resolution_windows[n]
        staked == ResolutionWindow_stake(window, sender, outcome, amount)
        w == staked.window
        dr1 == IF n = 0
               THEN [dr EXCEPT !.resolution_windows = Append(@, w)]
               ELSE [dr EXCEPT !.resolution_windows[n] = w]
        inv == invoke_final_arbitrator(dr1, w.bond_size)
        dr2 == IF w.bonded_outcome # NoOutcome THEN inv.dr ELSE dr1
        len2 == Len(dr2.resolution_windows)
        duration == IF len2 = 1
                    THEN dr2.initial_challenge_period
                    ELSE dr2.request_config.default_challenge_window_duration
        opened == ResolutionWindow_stake(
                      ResolutionWindow_new(dr2.id, len2, w.bond_size, duration, now),
                      sender, outcome, staked.unspent)
        dr3 == IF w.bonded_outcome # NoOutcome /\ ~inv.triggered
               THEN [dr2 EXCEPT !.resolution_windows = Append(@, opened.window)]
               ELSE dr2
    IN  [dr |-> dr3, unspent |-> staked.unspent]

\* faulty variant: a next window is opened even when the final arbitrator is triggered
stake_opens_window_when_triggered(dr, sender, outcome, amount, now) ==
    LET n == Len(dr.resolution_windows)
        window == IF n = 0
                  THEN ResolutionWindow_new(dr.id, 0, calc_resolution_bond(dr),
                                            dr.initial_challenge_period, now)
                  ELSE dr.resolution_windows[n]
        staked == ResolutionWindow_stake(window, sender, outcome, amount)
        w == staked.window
        dr1 == IF n = 0
               THEN [dr EXCEPT !.resolution_windows = Append(@, w)]
               ELSE [dr EXCEPT !.resolution_windows[n] = w]
        inv == invoke_final_arbitrator(dr1, w.bond_size)
        dr2 == IF w.bonded_outcome # NoOutcome THEN inv.dr ELSE dr1
        len2 == Len(dr2.resolution_windows)
        duration == IF len2 = 1
                    THEN dr2.initial_challenge_period
                    ELSE dr2.request_config.default_challenge_window_duration
        dr3 == IF w.bonded_outcome # NoOutcome
               THEN [dr2 EXCEPT !.resolution_windows =
                        Append(@, ResolutionWindow_new(dr2.id, len2, w.bond_size, duration, now))]
               ELSE dr2
    IN  [dr |-> dr3, unspent |-> staked.unspent]

ActiveDataRequest_stake(dr, sender, outcome, amount, now) ==
    LET n == Len(dr.resolution_windows)
        window == IF n = 0
                  THEN ResolutionWindow_new(dr.id, 0, calc_resolution_bond(dr),
                                            dr.initial_challenge_period, now)
                  ELSE dr.resolution_windows[n]
        staked == ResolutionWindow_stake(window, sender, outcome, amount)
        w == staked.window
        dr1 == IF n = 0
               THEN [dr EXCEPT !.resolution_windows = Append(@, w)]
               ELSE [dr EXCEPT !.resolution_windows[n] = w]
        inv == invoke_final_arbitrator(dr1, w.bond_size)
        \* && short-circuits: invoke_final_arbitrator only runs for a bonded window
        dr2 == IF w.bonded_outcome # NoOutcome THEN inv.dr ELSE dr1
        len2 == Len(dr2.resolution_windows)
        duration == IF len2 = 1
                    THEN dr2.initial_challenge_period
                    ELSE dr2.request_config.default_challenge_window_duration
        dr3 == IF w.bonded_outcome # NoOutcome /\ ~inv.triggered
               THEN [dr2 EXCEPT !.resolution_windows =
                        Append(@, ResolutionWindow_new(dr2.id, len2, w.bond_size, duration, now))]
               ELSE dr2
    IN  [dr |-> dr3, unspent |-> staked.unspent]

get_final_outcome_err(dr) ==
    IF ~(Len(dr.resolution_windows) >= 2)
    THEN "No bonded outcome found or final arbitrator triggered after first round"
    ELSE IF dr.resolution_windows[Len(dr.resolution_windows) - 1].bonded_outcome = NoOutcome
    THEN "Error, no final outcome"
    ELSE ""

\* faulty variant: the outcome is read from the last window, not the one before it
get_last_window_outcome(dr) ==
    dr.resolution_windows[Len(dr.resolution_windows)].bonded_outcome

\* faulty variant: the outcome is read from the first window
get_first_window_outcome(dr) == dr.resolution_windows[1].bonded_outcome

get_final_outcome(dr) ==
    dr.resolution_windows[Len(dr.resolution_windows) - 1].bonded_outcome

assert_valid_outcome(dr, outcome) ==
    IF dr.outcomes.some
    THEN IF outcome.kind = "String"
         THEN IF outcome.value \in dr.outcomes.list THEN "" ELSE "Incompatible outcome"
         ELSE IF outcome.kind = "Number" THEN "ERR_OUTCOME_NOT_STRING"
         ELSE ""
    ELSE ""

assert_valid_outcome_type(dr, outcome) ==
    IF outcome.kind = "String"
    THEN IF dr.data_type = TypeString THEN "" ELSE "ERR_WRONG_OUTCOME_TYPE"
    ELSE IF outcome.kind = "Number"
    THEN IF dr.data_type.kind = "Number"
         THEN IF dr.data_type.multiplier = outcome.multiplier THEN "" ELSE "ERR_WRONG_MULTIPLIER"
         ELSE "ERR_WRONG_OUTCOME_TYPE"
    ELSE ""

\* faulty variant: any outcome may be staked on in any round
assert_can_stake_on_any(dr, outcome) == ""

assert_can_stake_on_outcome(dr, outcome) ==
    IF Len(dr.resolution_windows) > 1
    THEN LET last_window == dr.resolution_windows[Len(dr.resolution_windows) - 1]
         IN  IF last_window.bonded_outcome = NoOutcome
             THEN "called Option::unwrap on a None value"
             ELSE IF last_window.bonded_outcome # outcome THEN ""
             ELSE "Outcome is incompatible for this round"
    ELSE ""

\* faulty variant: the end of the last window is not awaited
assert_can_finalize_any_time(dr, now) ==
    IF ~(Len(dr.resolution_windows) > 0)
    THEN "Error no bonded outcome, DataRequest still in progress"
    ELSE IF ~(~dr.final_arbitrator_triggered)
    THEN "Can only be finalized by final arbitrator"
    ELSE ""

assert_can_finalize(dr, now) ==
    IF ~(Len(dr.resolution_windows) > 0)
    THEN "Error no bonded outcome, DataRequest still in progress"
    ELSE IF ~(~dr.final_arbitrator_triggered)
    THEN "Can only be finalized by final arbitrator"
    ELSE IF ~(now >= dr.resolution_windows[Len(dr.resolution_windows)].end_time)
    THEN "Error can only be finalized after final dispute round has timed out"
    ELSE ""

\* faulty variant: any account passes for the final arbitrator
assert_any_sender(dr, predecessor) == ""

assert_final_arbitrator(dr, predecessor) ==
    IF dr.request_config.final_arbitrator = predecessor THEN ""
    ELSE "sender is not the final arbitrator of this DataRequest"

assert_final_arbitrator_invoked(dr) ==
    IF dr.final_arbitrator_triggered THEN ""
    ELSE "Final arbitrator can not finalize DataRequest"

assert_final_arbitrator_not_invoked(dr) ==
    IF ~dr.final_arbitrator_triggered THEN ""
    ELSE "Final arbitrator is invoked for DataRequest"

\* faulty variant: the whole amount is kept as the fee
new_with_gross_fee(requester, id, global_config_id, config, paid_fee, request_data) ==
    [kind |-> "Active",
     id |-> id,
     outcomes |-> request_data.outcomes,
     requester |-> requester,
     resolution_windows |-> <<>>,
     global_config_id |-> global_config_id,
     request_config |->
        [default_challenge_window_duration |-> config.default_challenge_window_duration,
         final_arbitrator_invoke_amount |-> config.final_arbitrator_invoke_amount,
         final_arbitrator |-> config.final_arbitrator,
         validity_bond |-> config.validity_bond,
         stake_multiplier |-> requester.stake_multiplier,
         paid_fee |-> paid_fee + config.validity_bond,
         min_resolution_bond |-> config.min_resolution_bond],
     initial_challenge_period |-> request_data.challenge_period,
     final_arbitrator_triggered |-> FALSE,
     data_type |-> request_data.data_type,
     provider |-> request_data.provider]

ActiveDataRequest_new(requester, id, global_config_id, config, paid_fee, request_data) ==
    [kind |-> "Active",
     id |-> id,
     outcomes |-> request_data.outcomes,
     requester |-> requester,
     resolution_windows |-> <<>>,
     global_config_id |-> global_config_id,
     request_config |->
        [default_challenge_window_duration |-> config.default_challenge_window_duration,
         final_arbitrator_invoke_amount |-> config.final_arbitrator_invoke_amount,
         final_arbitrator |-> config.final_arbitrator,
         validity_bond |-> config.validity_bond,
         stake_multiplier |-> requester.stake_multiplier,
         paid_fee |-> paid_fee,
         min_resolution_bond |-> config.min_resolution_bond],
     initial_challenge_period |-> request_data.challenge_period,
     final_arbitrator_triggered |-> FALSE,
     data_type |-> request_data.data_type,
     provider |-> request_data.provider]

----------------------------------------------------------------------------
(* FinalizedDataRequest (data_request.rs) *)

trim_dr(dr, finalized_outcome) ==
    [kind |-> "Finalized",
     id |-> dr.id,
     finalized_outcome |-> finalized_outcome,
     resolution_windows |-> dr.resolution_windows,
     global_config_id |-> dr.global_config_id,
     paid_fee |-> dr.request_config.paid_fee]

return_validity_bond(fdr, token, requester, validity_bond) ==
    IF fdr.finalized_outcome.kind \in {"String", "Number"}
    THEN <<Transfer(token, requester, validity_bond)>>
    ELSE <<>>

NoStake == [total_correct_staked |-> 0, total_incorrect_staked |-> 0, user_correct_stake |-> 0]

\* the loop of claim over the rounds, from window `round` (1-based here) on
RECURSIVE claim_rounds(_, _, _, _)
claim_rounds(fdr, round, account_id, acc) ==
    IF round > Len(fdr.resolution_windows) THEN [dr |-> fdr, acc |-> acc]
    ELSE LET c == claim_for(fdr.resolution_windows[round], account_id, fdr.finalized_outcome)
             acc1 == IF c.result.kind = "Correct"
                     THEN [acc EXCEPT !.total_correct_staked = @ + c.result.bonded_stake,
                                      !.user_correct_stake = @ + c.result.user_stake]
                     ELSE IF c.result.kind = "Incorrect"
                     THEN [acc EXCEPT !.total_incorrect_staked = @ + c.result.bonded_stake]
                     ELSE acc
         IN  claim_rounds([fdr EXCEPT !.resolution_windows[round] = c.window],
                          round + 1, account_id, acc1)

\* faulty variant: the stake is paid back without the share of the incorrect stake
claim_without_profit(fdr, account_id) ==
    LET r == claim_rounds(fdr, 1, account_id, NoStake)
        fee_profit == IF r.acc.total_correct_staked = 0 THEN 0
                      ELSE calc_product(r.acc.user_correct_stake, fdr.paid_fee,
                                        r.acc.total_correct_staked)
    IN  [dr |-> r.dr,
         res |-> [payment_token_payout |-> fee_profit,
                  stake_token_payout |-> r.acc.user_correct_stake]]

\* faulty variant: no share of the paid fee is paid
claim_without_fee(fdr, account_id) ==
    LET r == claim_rounds(fdr, 1, account_id, NoStake)
        stake_profit == IF r.acc.total_correct_staked = 0 THEN 0
                        ELSE calc_product(r.acc.user_correct_stake,
                                          r.acc.total_incorrect_staked,
                                          r.acc.total_correct_staked)
    IN  [dr |-> r.dr,
         res |-> [payment_token_payout |-> 0,
                  stake_token_payout |-> r.acc.user_correct_stake + stake_profit]]

FinalizedDataRequest_claim(fdr, account_id) ==
    LET r == claim_rounds(fdr, 1, account_id, NoStake)
        stake_profit == IF r.acc.total_correct_staked = 0 THEN 0
                        ELSE calc_product(r.acc.user_correct_stake,
                                          r.acc.total_incorrect_staked,
                                          r.acc.total_correct_staked)
        fee_profit == IF r.acc.total_correct_staked = 0 THEN 0
                      ELSE calc_product(r.acc.user_correct_stake, fdr.paid_fee,
                                        r.acc.total_correct_staked)
    IN  [dr |-> r.dr,
         res |-> [payment_token_payout |-> fee_profit,
                  stake_token_payout |-> r.acc.user_correct_stake + stake_profit]]

----------------------------------------------------------------------------
(* Whitelist (whitelist.rs) and payload validation (callback_args.rs) *)

NoWhitelist == [some |-> FALSE, map |-> {}]

whitelist_contains(wl, requester) == \E r \in wl.map : r.account_id = requester

assert_whitelisted(wl, requester) ==
    IF wl.some
    THEN IF whitelist_contains(wl, requester) THEN "" ELSE "Err predecessor is not whitelisted"
    ELSE ""

new_no_whitelist(account_id) == [account_id |-> account_id, stake_multiplier |-> NoMultiplier]

whitelist_get_expect(wl, requester) ==
    IF wl.some
    THEN CHOOSE r \in wl.map : r.account_id = requester
    ELSE new_no_whitelist(requester)

MAX_SOURCES == 8
MAX_TAGS == 8
MIN_OUTCOMES == 2
MIN_PERIOD_MULTIPLIER == 3
U8 == 256

SourcesLen(data_request) == IF data_request.sources.some THEN data_request.sources.len ELSE 0

dr_validate(config, data_request) ==
    IF ~((~data_request.description /\ SourcesLen(data_request) % U8 # 0)
         \/ data_request.description)
    THEN "Description should be filled when no sources are given"
    ELSE IF ~(SourcesLen(data_request) % U8 <= MAX_SOURCES)
    THEN "Too many sources provided"
    ELSE IF ~(data_request.challenge_period >= config.min_initial_challenge_window_duration)
    THEN "Challenge shorter than minimum challenge period"
    ELSE IF ~(data_request.challenge_period
                <= config.default_challenge_window_duration * MIN_PERIOD_MULTIPLIER)
    THEN "Challenge period exceeds maximum challenge period"
    ELSE IF ~(data_request.tags = 0 \/ data_request.tags % U8 <= MAX_TAGS)
    THEN "Too many tags provided"
    ELSE IF ~(~data_request.outcomes.some
              \/ (Cardinality(data_request.outcomes.list) % U8 <= config.max_outcomes
                  /\ Cardinality(data_request.outcomes.list) % U8 >= MIN_OUTCOMES))
    THEN "Invalid outcome list either exceeds min or max"
    ELSE ""

----------------------------------------------------------------------------
(* Contract: lookups and checks shared by the entry points *)

\* faulty variant: the pause flag is not looked at
assert_unpaused_always == ""

assert_unpaused == IF ~paused THEN "" ELSE "Oracle is paused"

assert_sender(predecessor, expected_sender) ==
    IF predecessor = expected_sender THEN "" ELSE "This function can only be called by"

get_config == configs[Len(configs)]

dr_exists(id) == id + 1 \in DOMAIN data_requests

\* faulty variant: a Finalized request is not handed out
dr_get_expect_unfinalized(id) ==
    IF ~dr_exists(id) THEN "ERR_DATA_REQUEST_NOT_FOUND"
    ELSE IF data_requests[id + 1].kind = "Finalized" THEN "ERR_DATA_REQUEST_FINALIZED"
    ELSE ""

dr_get_expect(id) ==
    IF dr_exists(id) THEN "" ELSE "ERR_DATA_REQUEST_NOT_FOUND"

\* faulty variant: a Finalized request is handed out as if it were Active
dr_get_expect_any(id) ==
    IF ~dr_exists(id) THEN "Error no DataRequest with this id exists" ELSE ""

dr_get_expect_active(id) ==
    IF ~dr_exists(id) THEN "Error no DataRequest with this id exists"
    ELSE IF data_requests[id + 1].kind = "Finalized"
    THEN "Error DataRequest is already finalized"
    ELSE ""

dr_get_expect_finalized(id) ==
    IF ~dr_exists(id) THEN "Error no DataRequest with this id exists"
    ELSE IF data_requests[id + 1].kind = "Active"
    THEN "Error DataRequest is not yet finalized"
    ELSE ""

----------------------------------------------------------------------------
(* Contract entry points (data_request.rs).  Each takes the host inputs
   (predecessor account, block_timestamp) and the call's arguments. *)

Unchanged_but_requests == UNCHANGED <<configs, whitelist, paused, block_timestamp, claim_log, inputs>>

NoStakeLog == [unspent |-> 0]

NoClaimLog == [a \in Accounts |-> [n |-> 0, stake |-> 0, fee |-> 0]]

\* a successful call: the entry point, env::predecessor_account_id() or the
\* account the call is made for, the call's arguments, the promises it issued,
\* and how the call found the request: its lifecycle state and the number of
\* claims dr_claim had paid on it
Call(op, account, request_id, round, outcome, amount, promises) ==
    [op |-> op, account |-> account, request_id |-> request_id, round |-> round,
     outcome |-> outcome, amount |-> amount, promises |-> promises,
     found |-> IF dr_exists(request_id) THEN data_requests[request_id + 1].kind ELSE "",
     claims |-> IF dr_exists(request_id)
                THEN SumOver(Accounts, [a \in Accounts |-> claim_log[request_id + 1][a].n])
                ELSE 0]

NoCall == Call("", "", 0, 0, NoOutcome, 0, <<>>)

Log(call) == call_log' = IF call.op \in inputs.trace THEN call ELSE call_log

dr_new_err(sender, predecessor, amount, payload) ==
    LET config == get_config
    IN  IF assert_unpaused # "" THEN assert_unpaused
        ELSE IF assert_whitelisted(whitelist, sender) # "" THEN assert_whitelisted(whitelist, sender)
        ELSE IF assert_sender(predecessor, config.payment_token) # ""
        THEN assert_sender(predecessor, config.payment_token)
        ELSE IF ~(amount >= config.validity_bond) THEN "Validity bond not reached"
        ELSE IF dr_validate(config, payload) # "" THEN dr_validate(config, payload)
        ELSE IF ~payload.sources.some THEN "called Option::unwrap on a None value"
        ELSE ""

\* the value a successful dr_new returns
dr_new_returns(sender, amount, payload) == 0

dr_new(sender, predecessor, amount, payload) ==
    LET config == get_config
        paid_fee == amount - config.validity_bond
        requester == whitelist_get_expect(whitelist, sender)
        dr == ActiveDataRequest_new(requester, Len(data_requests), Len(configs) - 1,
                                    config, paid_fee, payload)
    IN  /\ dr_new_err(sender, predecessor, amount, payload) = ""
        /\ data_requests' = Append(data_requests, dr)
        /\ claim_log' = Append(claim_log, NoClaimLog)
        /\ finalize_log' = Append(finalize_log, <<>>)
        /\ ledger' = Append(ledger, [stake |-> 0,
                                     payment |-> amount - dr_new_returns(sender, amount, payload)])
        /\ Log(Call("dr_new", sender, Len(data_requests), 0, NoOutcome, amount, <<>>))
        /\ UNCHANGED <<configs, whitelist, paused, block_timestamp, stake_log, inputs>>

dr_stake_err(sender, predecessor, amount, id, outcome) ==
    IF assert_unpaused # "" THEN assert_unpaused
    ELSE IF dr_get_expect_active(id) # "" THEN dr_get_expect_active(id)
    ELSE LET dr == data_requests[id + 1]
             config == configs[dr.global_config_id + 1]
         IN  FirstErr(<<assert_sender(predecessor, config.stake_token),
                        assert_final_arbitrator_not_invoked(dr),
                        assert_can_stake_on_outcome(dr, outcome),
                        assert_valid_outcome(dr, outcome),
                        assert_valid_outcome_type(dr, outcome)>>)

\* the value a successful dr_stake returns: the unspent part of amount
dr_stake_returns(sender, amount, id, outcome) ==
    ActiveDataRequest_stake(data_requests[id + 1], sender, outcome, amount,
                            block_timestamp).unspent

dr_stake(sender, predecessor, amount, id, outcome) ==
    LET r == ActiveDataRequest_stake(data_requests[id + 1], sender, outcome, amount,
                                     block_timestamp)
    IN  /\ dr_stake_err(sender, predecessor, amount, id, outcome) = ""
        /\ data_requests' = [data_requests EXCEPT ![id + 1] = r.dr]
        /\ stake_log' = [unspent |-> r.unspent]
        /\ ledger' = [ledger EXCEPT ![id + 1].stake = @ + amount - r.unspent]
        /\ Log(Call("dr_stake", sender, id, Len(data_requests[id + 1].resolution_windows) - 1,
                    outcome, amount, <<>>))
        /\ UNCHANGED finalize_log
        /\ Unchanged_but_requests

dr_unstake_err(predecessor, request_id, resolution_round, outcome, amount) ==
    IF assert_unpaused # "" THEN assert_unpaused
    ELSE IF dr_get_expect(request_id) # "" THEN dr_get_expect(request_id)
    ELSE LET dr == data_requests[request_id + 1]
         IN  IF resolution_round + 1 \notin DOMAIN dr.resolution_windows
             THEN "ERR_NO_RESOLUTION_WINDOW"
             ELSE ResolutionWindow_unstake_err(dr.resolution_windows[resolution_round + 1],
                                               predecessor, outcome, amount)

DataRequest_unstake(dr, sender, round, outcome, amount) ==
    LET u == ResolutionWindow_unstake(dr.resolution_windows[round + 1], sender, outcome, amount)
    IN  [dr |-> [dr EXCEPT !.resolution_windows[round + 1] = u.window], amount |-> u.amount]

\* faulty variant: the stake is refunded on the stake token of the latest config
unstake_promises_latest_config(predecessor, request_id, resolution_round, outcome, amount) ==
    LET dr == data_requests[request_id + 1]
        u == DataRequest_unstake(dr, predecessor, resolution_round, outcome, amount)
    IN  <<Transfer(get_config.stake_token, predecessor, u.amount)>>

\* the promise a successful dr_unstake issues
dr_unstake_promises(predecessor, request_id, resolution_round, outcome, amount) ==
    LET dr == data_requests[request_id + 1]
        u == DataRequest_unstake(dr, predecessor, resolution_round, outcome, amount)
        config == configs[dr.global_config_id + 1]
    IN  <<Transfer(config.stake_token, predecessor, u.amount)>>

dr_unstake(predecessor, request_id, resolution_round, outcome, amount) ==
    LET dr == data_requests[request_id + 1]
        u == DataRequest_unstake(dr, predecessor, resolution_round, outcome, amount)
    IN  /\ dr_unstake_err(predecessor, request_id, resolution_round, outcome, amount) = ""
        /\ data_requests' = [data_requests EXCEPT ![request_id + 1] = u.dr]
        /\ Log(Call("dr_unstake", predecessor, request_id, resolution_round, outcome, amount,
                    dr_unstake_promises(predecessor, request_id, resolution_round, outcome,
                                        amount)))
        /\ ledger' = [ledger EXCEPT ![request_id + 1].stake =
                         @ - Sent(dr_unstake_promises(predecessor, request_id, resolution_round,
                                                      outcome, amount))]
        /\ UNCHANGED <<finalize_log, stake_log>>
        /\ Unchanged_but_requests

dr_claim_err(account_id, request_id) ==
    IF assert_unpaused # "" THEN assert_unpaused
    ELSE IF dr_get_expect_finalized(request_id) # "" THEN dr_get_expect_finalized(request_id)
    ELSE LET c == FinalizedDataRequest_claim(data_requests[request_id + 1], account_id)
         IN  IF c.res.stake_token_payout > 0 \/ c.res.payment_token_payout > 0 THEN ""
             ELSE "can't claim 0"

\* faulty variant: the fee payout is not transferred
claim_promises_stake_only(config, account_id, stake_payout) ==
    IF stake_payout.stake_token_payout > 0
    THEN <<Transfer(config.stake_token, account_id, stake_payout.stake_token_payout)>>
    ELSE <<>>

dr_claim_promises(config, account_id, stake_payout) ==
    (IF stake_payout.stake_token_payout > 0
     THEN <<Transfer(config.stake_token, account_id, stake_payout.stake_token_payout)>>
     ELSE <<>>)
    \o
    (IF stake_payout.payment_token_payout > 0
     THEN <<Transfer(config.payment_token, account_id, stake_payout.payment_token_payout)>>
     ELSE <<>>)

dr_claim(account_id, request_id) ==
    LET dr == data_requests[request_id + 1]
        c == FinalizedDataRequest_claim(dr, account_id)
    IN  /\ dr_claim_err(account_id, request_id) = ""
        /\ data_requests' = [data_requests EXCEPT ![request_id + 1] = c.dr]
        /\ claim_log' = [claim_log EXCEPT ![request_id + 1][account_id] =
                            [n |-> @.n + 1,
                             stake |-> @.stake + c.res.stake_token_payout,
                             fee |-> @.fee + c.res.payment_token_payout]]
        /\ ledger' = [ledger EXCEPT ![request_id + 1] =
                         [stake |-> @.stake - c.res.stake_token_payout,
                          payment |-> @.payment - c.res.payment_token_payout]]
        /\ Log(Call("dr_claim", account_id, request_id, 0, NoOutcome, 0,
                    dr_claim_promises(configs[dr.global_config_id + 1], account_id, c.res)))
        /\ UNCHANGED <<configs, whitelist, paused, block_timestamp, finalize_log,
                       stake_log, inputs>>

dr_finalize_err(request_id) ==
    IF assert_unpaused # "" THEN assert_unpaused
    ELSE IF dr_get_expect_active(request_id) # "" THEN dr_get_expect_active(request_id)
    ELSE LET dr == data_requests[request_id + 1]
         IN  IF assert_can_finalize(dr, block_timestamp) # ""
             THEN assert_can_finalize(dr, block_timestamp)
             ELSE get_final_outcome_err(dr)

\* the promises a successful dr_finalize issues
dr_finalize_promises(request_id) ==
    LET dr == data_requests[request_id + 1]
        requester == dr.requester.account_id
        validity_bond == dr.request_config.validity_bond
        final_outcome == get_final_outcome(dr)
        config == configs[dr.global_config_id + 1]
        fdr == trim_dr(dr, final_outcome)
    IN  <<SetOutcome(requester, final_outcome)>>
        \o return_validity_bond(fdr, config.payment_token, requester, validity_bond)

dr_finalize(request_id) ==
    LET dr == data_requests[request_id + 1]
        final_outcome == get_final_outcome(dr)
        fdr == trim_dr(dr, final_outcome)
    IN  /\ dr_finalize_err(request_id) = ""
        /\ data_requests' = [data_requests EXCEPT ![request_id + 1] = fdr]
        /\ finalize_log' = [finalize_log EXCEPT ![request_id + 1] =
                               Append(@, [by |-> "dr_finalize", outcome |-> final_outcome])]
        /\ Log(Call("dr_finalize", "", request_id, 0, final_outcome, 0,
                    dr_finalize_promises(request_id)))
        /\ ledger' = [ledger EXCEPT ![request_id + 1].payment =
                         @ - Sent(dr_finalize_promises(request_id))]
        /\ UNCHANGED stake_log
        /\ Unchanged_but_requests

\* faulty variant: any caller may finalize a provider request
by_provider_err_any_caller(predecessor, request_id, outcome) ==
    IF assert_unpaused # "" THEN assert_unpaused
    ELSE IF dr_get_expect_active(request_id) # "" THEN dr_get_expect_active(request_id)
    ELSE LET dr == data_requests[request_id + 1]
         IN  IF assert_valid_outcome(dr, outcome) # "" THEN assert_valid_outcome(dr, outcome)
             ELSE IF dr.provider = NoProvider THEN "error this is not a provider data request"
             ELSE ""

dr_finalize_by_provider_err(predecessor, request_id, outcome) ==
    IF assert_unpaused # "" THEN assert_unpaused
    ELSE IF dr_get_expect_active(request_id) # "" THEN dr_get_expect_active(request_id)
    ELSE LET dr == data_requests[request_id + 1]
         IN  IF assert_valid_outcome(dr, outcome) # "" THEN assert_valid_outcome(dr, outcome)
             ELSE IF dr.provider = NoProvider THEN "error this is not a provider data request"
             ELSE IF dr.provider # predecessor
             THEN "this request can only be finalized by the provider"
             ELSE ""

\* the promise a successful dr_finalize_by_provider issues
dr_finalize_by_provider_promises(request_id, outcome) ==
    <<SetOutcome(data_requests[request_id + 1].requester.account_id, outcome)>>

dr_finalize_by_provider(predecessor, request_id, outcome) ==
    LET dr == data_requests[request_id + 1]
        fdr == trim_dr(dr, outcome)
    IN  /\ dr_finalize_by_provider_err(predecessor, request_id, outcome) = ""
        /\ data_requests' = [data_requests EXCEPT ![request_id + 1] = fdr]
        /\ finalize_log' = [finalize_log EXCEPT ![request_id + 1] =
                               Append(@, [by |-> "dr_finalize_by_provider", outcome |-> outcome])]
        /\ Log(Call("dr_finalize_by_provider", predecessor, request_id, 0, outcome, 0,
                    dr_finalize_by_provider_promises(request_id, outcome)))
        /\ ledger' = [ledger EXCEPT ![request_id + 1].payment =
                         @ - Sent(dr_finalize_by_provider_promises(request_id, outcome))]
        /\ UNCHANGED stake_log
        /\ Unchanged_but_requests

dr_final_arbitrator_finalize_err(predecessor, request_id, outcome) ==
    IF assert_unpaused # "" THEN assert_unpaused
    ELSE IF dr_get_expect_active(request_id) # "" THEN dr_get_expect_active(request_id)
    ELSE LET dr == data_requests[request_id + 1]
         IN  FirstErr(<<assert_final_arbitrator(dr, predecessor),
                        assert_valid_outcome(dr, outcome),
                        assert_final_arbitrator_invoked(dr)>>)

\* the promises a successful dr_final_arbitrator_finalize issues
dr_final_arbitrator_finalize_promises(request_id, outcome) ==
    LET dr == data_requests[request_id + 1]
        requester == dr.requester.account_id
        validity_bond == dr.request_config.validity_bond
        config == configs[dr.global_config_id + 1]
        fdr == trim_dr(dr, outcome)
    IN  <<SetOutcome(requester, outcome)>>
        \o return_validity_bond(fdr, config.payment_token, requester, validity_bond)

dr_final_arbitrator_finalize(predecessor, request_id, outcome) ==
    LET dr == data_requests[request_id + 1]
        fdr == trim_dr(dr, outcome)
    IN  /\ dr_final_arbitrator_finalize_err(predecessor, request_id, outcome) = ""
        /\ data_requests' = [data_requests EXCEPT ![request_id + 1] = fdr]
        /\ finalize_log' = [finalize_log EXCEPT ![request_id + 1] =
                               Append(@, [by |-> "dr_final_arbitrator_finalize",
                                          outcome |-> outcome])]
        /\ Log(Call("dr_final_arbitrator_finalize", predecessor, request_id, 0, outcome, 0,
                    dr_final_arbitrator_finalize_promises(request_id, outcome)))
        /\ ledger' = [ledger EXCEPT ![request_id + 1].payment =
                         @ - Sent(dr_final_arbitrator_finalize_promises(request_id, outcome))]
        /\ UNCHANGED stake_log
        /\ Unchanged_but_requests

\* the host's clock: block_timestamp never decreases; it moves on to the next
\* of the times at which calls are explored
AdvanceTime ==
    /\ \E t \in inputs.times :
          /\ t > block_timestamp
          /\ \A u \in inputs.times : u > block_timestamp => t <= u
          /\ block_timestamp' = t
    /\ UNCHANGED <<configs, whitelist, data_requests, paused, claim_log, finalize_log,
                   stake_log, ledger, call_log, inputs>>

----------------------------------------------------------------------------
(* The contract as the unit tests deploy it (data_request.rs, new_config),
   with the amounts and durations scaled down *)

new_config(final_arb_amount) ==
    [gov |-> GovAccount,
     final_arbitrator |-> "alice",
     payment_token |-> TokenAccount,
     stake_token |-> TokenAccount,
     validity_bond |-> 1,
     max_outcomes |-> 8,
     default_challenge_window_duration |-> 1,
     min_initial_challenge_window_duration |-> 1,
     final_arbitrator_invoke_amount |-> final_arb_amount,
     min_resolution_bond |-> 1]

registry_entry(account) == [account_id |-> account, stake_multiplier |-> NoMultiplier]

Payload(sources, description, outcomes, challenge_period, tags, data_type, provider) ==
    [sources |-> sources, description |-> description, outcomes |-> outcomes,
     challenge_period |-> challenge_period, tags |-> tags, data_type |-> data_type,
     provider |-> provider]

SomeSources(n) == [some |-> TRUE, len |-> n]
NoSources == [some |-> FALSE, len |-> 0]

\* the requests of the unit tests' dr_new helper, without and with a provider
MainPayloads ==
    {Payload(SomeSources(0), TRUE, SomeOutcomeList({"a", "b"}), 1, 1, TypeString, NoProvider),
     Payload(SomeSources(0), TRUE, SomeOutcomeList({"a", "b"}), 1, 1, TypeString, "bob")}

\* The calls that are explored: one request; dr_new with an amount below the
\* validity bond (rejected) and with a fee of 1; stakes on a, b and on c, which
\* is not an outcome of the request (rejected), into rounds 0 and 1 (a third
\* window is opened but not staked into); finalization on a, b, Invalid and c.
MainInputs ==
    [payloads |-> MainPayloads,
     new_amounts |-> {0, 2},
     request_ids |-> {0},
     stake_outcomes |-> {OutA, OutB, OutC},
     final_outcomes |-> {OutA, OutB, OutInvalid, OutC},
     stake_amounts |-> 1..MaxAmount,
     unstake_amounts |-> 1..MaxAmount,
     stake_rounds |-> {0, 1},
     times |-> 0..MaxTime,
     trace |-> {}]

Init ==
    /\ configs \in {<<new_config(4)>>, <<new_config(8)>>}
    /\ whitelist = [some |-> TRUE, map |-> {registry_entry(RequesterAccount)}]
    /\ data_requests = <<>>
    /\ paused = FALSE
    /\ block_timestamp = 0
    /\ claim_log = <<>>
    /\ finalize_log = <<>>
    /\ stake_log = NoStakeLog
    /\ ledger = <<>>
    /\ call_log = NoCall
    /\ inputs = MainInputs

\* the round the next stake on request id goes to
StakeRound(id) ==
    IF dr_exists(id) /\ Len(data_requests[id + 1].resolution_windows) > 0
    THEN Len(data_requests[id + 1].resolution_windows) - 1
    ELSE 0

Next ==
    \/ \E sender \in {RequesterAccount}, predecessor \in {TokenAccount},
          amount \in inputs.new_amounts, payload \in inputs.payloads :
            /\ Len(data_requests) \in inputs.request_ids
            /\ dr_new(sender, predecessor, amount, payload)
    \/ \E sender \in Stakers, predecessor \in {TokenAccount},
          amount \in inputs.stake_amounts, id \in inputs.request_ids,
          outcome \in inputs.stake_outcomes :
            /\ StakeRound(id) \in inputs.stake_rounds
            /\ dr_stake(sender, predecessor, amount, id, outcome)
    \/ \E predecessor \in Stakers, id \in inputs.request_ids, round \in 0..2,
          outcome \in inputs.stake_outcomes, amount \in inputs.unstake_amounts :
            dr_unstake(predecessor, id, round, outcome, amount)
    \/ \E account_id \in Stakers, id \in inputs.request_ids : dr_claim(account_id, id)
    \/ \E id \in inputs.request_ids : dr_finalize(id)
    \/ \E predecessor \in Stakers, id \in inputs.request_ids, outcome \in inputs.final_outcomes :
            dr_finalize_by_provider(predecessor, id, outcome)
    \/ \E predecessor \in Stakers, id \in inputs.request_ids, outcome \in inputs.final_outcomes :
            dr_final_arbitrator_finalize(predecessor, id, outcome)
    \/ AdvanceTime

Spec == Init /\ [][Next]_vars

----------------------------------------------------------------------------
(* The contract with the amounts and durations of the unit tests
   (data_request.rs, mod tests): validity_bond 100, challenge windows of 1000,
   requests with challenge_period 1500, stakes of 200 and 400. *)

tests_new_config(final_arb_amount) ==
    [gov |-> GovAccount,
     final_arbitrator |-> "alice",
     payment_token |-> TokenAccount,
     stake_token |-> TokenAccount,
     validity_bond |-> 100,
     max_outcomes |-> 8,
     default_challenge_window_duration |-> 1000,
     min_initial_challenge_window_duration |-> 1000,
     final_arbitrator_invoke_amount |-> final_arb_amount,
     min_resolution_bond |-> 100]

config == tests_new_config(1000000)
config_for_quick_final_arb == tests_new_config(250)

\* the requests of the unit tests' dr_new helper, without and with a provider
TestPayloads ==
    {Payload(SomeSources(0), TRUE, SomeOutcomeList({"a", "b"}), 1500, 1, TypeString, NoProvider),
     Payload(SomeSources(0), TRUE, SomeOutcomeList({"a", "b"}), 1500, 1, TypeString, "bob")}

\* The calls the unit tests make: one request, created with 100 (no fee) or
\* with 150 (a fee of 50); stakes of 200 and 400 on a, b and Invalid into rounds
\* 0 and 1; unstakes of 200; calls at the times 0 and 1501.
TestInputs ==
    [payloads |-> TestPayloads,
     new_amounts |-> {100, 150},
     request_ids |-> {0},
     stake_outcomes |-> {OutA, OutB, OutInvalid},
     final_outcomes |-> {OutA, OutB, OutInvalid},
     stake_amounts |-> {200, 400},
     unstake_amounts |-> {200},
     stake_rounds |-> {0, 1},
     times |-> {0, 1501},
     trace |-> {"dr_unstake", "dr_finalize", "dr_finalize_by_provider",
                "dr_final_arbitrator_finalize"}]

InitTests ==
    /\ configs \in {<<config>>, <<config_for_quick_final_arb>>}
    /\ whitelist = [some |-> TRUE, map |-> {registry_entry(RequesterAccount)}]
    /\ data_requests = <<>>
    /\ paused = FALSE
    /\ block_timestamp = 0
    /\ claim_log = <<>>
    /\ finalize_log = <<>>
    /\ stake_log = NoStakeLog
    /\ ledger = <<>>
    /\ call_log = NoCall
    /\ inputs = TestInputs

SpecTests == InitTests /\ [][Next]_vars

----------------------------------------------------------------------------
(* Contracts that differ in what sizes the resolution bond: the config's
   min_resolution_bond, the fee paid with the request and the stake multiplier
   that add_to_whitelist (whitelist.rs) stored for the requester. *)

bonds_config(min_resolution_bond) ==
    [gov |-> GovAccount,
     final_arbitrator |-> "alice",
     payment_token |-> TokenAccount,
     stake_token |-> TokenAccount,
     validity_bond |-> 2,
     max_outcomes |-> 8,
     default_challenge_window_duration |-> 1,
     min_initial_challenge_window_duration |-> 1,
     final_arbitrator_invoke_amount |-> 16,
     min_resolution_bond |-> min_resolution_bond]

registry_entry_with_multiplier(account, m) ==
    [account_id |-> account, stake_multiplier |-> SomeMultiplier(m)]

BondPayloads ==
    {Payload(SomeSources(0), TRUE, SomeOutcomeList({"a", "b"}), 2, 1, TypeString, NoProvider),
     Payload(SomeSources(0), TRUE, SomeOutcomeList({"a", "b"}), 2, 1, TypeString, "bob")}

\* The calls that are explored: one request with challenge_period 2, created
\* with 2 (no fee) or with 6 (a fee of 4); stakes of 16, which fill round 0 at
\* once, on a and b into rounds 0 and 1; unstakes of 16; calls at the times 0,
\* 1 and 4.
BondInputs ==
    [payloads |-> BondPayloads,
     new_amounts |-> {2, 6},
     request_ids |-> {0},
     stake_outcomes |-> {OutA, OutB},
     final_outcomes |-> {OutA, OutInvalid},
     stake_amounts |-> {16},
     unstake_amounts |-> {16},
     stake_rounds |-> {0, 1},
     times |-> {0, 1, 4},
     trace |-> {}]

InitBonds ==
    /\ configs \in {<<bonds_config(1)>>, <<bonds_config(5)>>}
    /\ whitelist \in {[some |-> TRUE, map |-> {registry_entry(RequesterAccount)}],
                      [some |-> TRUE,
                       map |-> {registry_entry_with_multiplier(RequesterAccount, 150)}]}
    /\ data_requests = <<>>
    /\ paused = FALSE
    /\ block_timestamp = 0
    /\ claim_log = <<>>
    /\ finalize_log = <<>>
    /\ stake_log = NoStakeLog
    /\ ledger = <<>>
    /\ call_log = NoCall
    /\ inputs = BondInputs

SpecBonds == InitBonds /\ [][Next]_vars

----------------------------------------------------------------------------
(* The contract under governance: set_config (oracle_config.rs) replaces the
   current config by appending a snapshot, toggle_pause flips the pause flag,
   and the oracle is deployed with or without a whitelist.  Requests differ in
   whether they carry sources, a description, an outcome list, a provider. *)

NewTokenAccount == "token2"
NewStakeAccount == "stake2"

assert_gov(predecessor) ==
    IF get_config.gov = predecessor THEN ""
    ELSE "This method is only callable by the governance contract"

set_config(predecessor, new_cfg) ==
    /\ assert_gov(predecessor) = ""
    /\ configs' = Append(configs, new_cfg)
    /\ Log(Call("set_config", predecessor, 0, 0, NoOutcome, 0, <<>>))
    /\ UNCHANGED <<whitelist, data_requests, paused, block_timestamp, claim_log,
                   finalize_log, stake_log, ledger, inputs>>

toggle_pause(predecessor) ==
    /\ assert_gov(predecessor) = ""
    /\ paused' = ~paused
    /\ Log(Call("toggle_pause", predecessor, 0, 0, NoOutcome, 0, <<>>))
    /\ UNCHANGED <<configs, whitelist, data_requests, block_timestamp, claim_log,
                   finalize_log, stake_log, ledger, inputs>>

\* the config the oracle is deployed with
gov_config ==
    [gov |-> GovAccount,
     final_arbitrator |-> "alice",
     payment_token |-> TokenAccount,
     stake_token |-> TokenAccount,
     validity_bond |-> 2,
     max_outcomes |-> 8,
     default_challenge_window_duration |-> 1,
     min_initial_challenge_window_duration |-> 1,
     final_arbitrator_invoke_amount |-> 8,
     min_resolution_bond |-> 1]

\* the config that governance sets later: every parameter a request pins differs
gov_new_config ==
    [gov |-> GovAccount,
     final_arbitrator |-> "bob",
     payment_token |-> NewTokenAccount,
     stake_token |-> NewStakeAccount,
     validity_bond |-> 1,
     max_outcomes |-> 2,
     default_challenge_window_duration |-> 2,
     min_initial_challenge_window_duration |-> 1,
     final_arbitrator_invoke_amount |-> 6,
     min_resolution_bond |-> 3]

\* a request with one source, no description and no outcome list; a request
\* with a description, an outcome list and a provider; a request with a
\* description and no sources
GovPayloads ==
    {Payload(SomeSources(1), FALSE, NoOutcomeList, 1, 0, TypeString, NoProvider),
     Payload(SomeSources(1), TRUE, SomeOutcomeList({"a", "b"}), 1, 1, TypeString, "bob"),
     Payload(NoSources, TRUE, SomeOutcomeList({"a", "b"}), 1, 1, TypeString, NoProvider)}

\* The calls that are explored: two requests, each created with 3, the second
\* of which is only created; on the first, stakes of 4 on a and b into rounds 0
\* and 1, unstakes of 4, finalization on a, on the number 1 and on Invalid; calls at
\* the times 0 and 2.
GovInputs ==
    [payloads |-> GovPayloads,
     new_amounts |-> {3},
     request_ids |-> {0},
     new_ids |-> {0, 1},
     stake_outcomes |-> {OutA, OutB},
     final_outcomes |-> {OutA, OutNum, OutInvalid},
     stake_amounts |-> {4},
     unstake_amounts |-> {4},
     stake_rounds |-> {0, 1},
     times |-> {0, 2},
     new_configs |-> {gov_new_config},
     trace |-> {"dr_unstake", "dr_claim", "dr_finalize", "dr_final_arbitrator_finalize"}]

InitGov ==
    /\ configs = <<gov_config>>
    /\ whitelist \in {NoWhitelist, [some |-> TRUE, map |-> {registry_entry(RequesterAccount)}]}
    /\ data_requests = <<>>
    /\ paused = FALSE
    /\ block_timestamp = 0
    /\ claim_log = <<>>
    /\ finalize_log = <<>>
    /\ stake_log = NoStakeLog
    /\ ledger = <<>>
    /\ call_log = NoCall
    /\ inputs = GovInputs

NextGov ==
    \/ Next
    \/ \E new_cfg \in inputs.new_configs :
          /\ \A k \in DOMAIN configs : configs[k] # new_cfg
          /\ set_config(GovAccount, new_cfg)
    \/ toggle_pause(GovAccount)
    \/ \E predecessor \in {TokenAccount, NewTokenAccount},
          amount \in inputs.new_amounts, payload \in inputs.payloads :
          /\ Len(data_requests) \in inputs.new_ids
          /\ dr_new(RequesterAccount, predecessor, amount, payload)
    \/ \E sender \in Stakers, amount \in inputs.stake_amounts, id \in inputs.request_ids,
          outcome \in inputs.stake_outcomes :
          /\ StakeRound(id) \in inputs.stake_rounds
          /\ dr_stake(sender, NewStakeAccount, amount, id, outcome)

SpecGov == InitGov /\ [][NextGov]_vars

----------------------------------------------------------------------------
(* The promises in flight.  dr_unstake, dr_claim and the finalize entry points
   create their ft_transfer and set_outcome promises after the request is
   written back and attach no callback of the oracle to them (data_request.rs
   568-722; the only .then chains the second transfer of dr_claim to the
   first).  A promise is executed by another contract after the call has
   returned, and either succeeds or fails there. *)

\* the name under which a call is recorded once one of its promises has failed
Failed(op) ==
    CASE op = "dr_unstake" -> "dr_unstake (promise failed)"
      [] op = "dr_claim" -> "dr_claim (promise failed)"
      [] op = "dr_finalize" -> "dr_finalize (promise failed)"
      [] op = "dr_final_arbitrator_finalize" -> "dr_final_arbitrator_finalize (promise failed)"
      [] OTHER -> op

\* faulty variant: a failed refund of dr_unstake puts the stake back
restake_on_failed_promise(call, ok) ==
    IF ~ok /\ call.op = "dr_unstake"
    THEN [data_requests EXCEPT
            ![call.request_id + 1].resolution_windows[call.round + 1] =
                [@ EXCEPT !.outcome_to_stake[call.outcome] = @ + call.amount,
                          !.user_to_outcome_to_stake[call.account][call.outcome] =
                              @ + call.amount]]
    ELSE data_requests

\* the requests after the first promise in flight of call has been executed
\* with result ok: no code of the oracle runs on a promise result
on_promise_result(call, ok) == data_requests

\* the first promise in flight of the call recorded last is executed
promise_result(ok) ==
    /\ call_log.promises # <<>>
    /\ data_requests' = on_promise_result(call_log, ok)
    /\ call_log' = [call_log EXCEPT !.promises = Tail(@),
                                    !.op = IF ok THEN @ ELSE Failed(@)]
    /\ UNCHANGED <<configs, whitelist, paused, block_timestamp, claim_log, finalize_log,
                   stake_log, ledger, inputs>>

\* The calls of BondInputs at the times 0 and 4, with stakes and unstakes of 4,
\* which fill a round in one or several calls, and with the calls that issue
\* promises recorded.
AsyncInputs ==
    [BondInputs EXCEPT !.times = {0, 4},
                       !.stake_amounts = {4},
                       !.unstake_amounts = {4},
                       !.trace = {"dr_unstake", "dr_claim", "dr_finalize",
                                  "dr_final_arbitrator_finalize"}]

InitAsync ==
    /\ configs = <<bonds_config(1)>>
    /\ whitelist = [some |-> TRUE, map |-> {registry_entry(RequesterAccount)}]
    /\ data_requests = <<>>
    /\ paused = FALSE
    /\ block_timestamp = 0
    /\ claim_log = <<>>
    /\ finalize_log = <<>>
    /\ stake_log = NoStakeLog
    /\ ledger = <<>>
    /\ call_log = NoCall
    /\ inputs = AsyncInputs

NextAsync ==
    \/ Next
    \/ \E ok \in BOOLEAN : promise_result(ok)

SpecAsync == InitAsync /\ [][NextAsync]_vars

----------------------------------------------------------------------------
(* Properties.  Requests are numbered from 1 here: request id i - 1 is
   data_requests[i]. *)

Requests == DOMAIN data_requests
IsActive(i) == data_requests[i].kind = "Active"
IsFinalized(i) == data_requests[i].kind = "Finalized"
Windows(i) == data_requests[i].resolution_windows
ClaimOf(i, a) == FinalizedDataRequest_claim(data_requests[i], a)

BondedWindows(i) == {k \in DOMAIN Windows(i) : Windows(i)[k].bonded_outcome # NoOutcome}
CorrectWindows(i) ==
    {k \in BondedWindows(i) : Windows(i)[k].bonded_outcome = data_requests[i].finalized_outcome}
IncorrectWindows(i) == BondedWindows(i) \ CorrectWindows(i)

BondOf(i, S) == SumOver(S, [k \in S |-> Windows(i)[k].bond_size])
StakePaid(i) == SumOver(Accounts, [a \in Accounts |-> claim_log[i][a].stake])

\* u: what account a holds on the finalized outcome in the windows bonded on it
OwnCorrectStake(i, a) ==
    SumOver(CorrectWindows(i),
            [k \in CorrectWindows(i) |->
                Windows(i)[k].user_to_outcome_to_stake[a][data_requests[i].finalized_outcome]])

\* C1 -- fund conservation: for every Finalized request, the stake payouts that
\* dr_claim has made, summed over all accounts, never exceed the sum of bond_size
\* over the windows that have a bonded_outcome.
C1_FundConservation ==
    \A i \in Requests : IsFinalized(i) => StakePaid(i) <= BondOf(i, BondedWindows(i))

\* two accounts have claimed their stake with profit and the bonded stake is paid out in full
C1_Witness ==
    \E i \in Requests :
        /\ IsFinalized(i)
        /\ IncorrectWindows(i) # {}
        /\ \A a \in Stakers : claim_log[i][a].stake > 0
        /\ StakePaid(i) = BondOf(i, BondedWindows(i))

\* C2 -- claim idempotence: on a Finalized request a claim for an account right
\* after a claim for it returns (0, 0), and once dr_claim has paid an account
\* every later claim for it returns (0, 0) (dr_claim then fails with "can't
\* claim 0"), whatever was claimed or unstaked by others since; no account is
\* ever paid twice.
C2_ClaimIdempotent ==
    \A i \in Requests, a \in Accounts :
        IsFinalized(i) =>
            /\ FinalizedDataRequest_claim(ClaimOf(i, a).dr, a).res = NoClaim
            /\ claim_log[i][a].n <= 1
            /\ claim_log[i][a].n >= 1 =>
                  /\ ClaimOf(i, a).res = NoClaim
                  /\ dr_claim_err(a, i - 1) = "can't claim 0"

\* both stakers have been paid by dr_claim on the same request
C2_Witness ==
    \E i \in Requests :
        /\ IsFinalized(i)
        /\ \A a \in Stakers : claim_log[i][a].n = 1 /\ claim_log[i][a].stake > 0

\* the payout of the claim formula for account a on request i
ExpectedClaim(i, a) ==
    LET C == BondOf(i, CorrectWindows(i))
        I == BondOf(i, IncorrectWindows(i))
        u == OwnCorrectStake(i, a)
        F == data_requests[i].paid_fee
    IN  IF C = 0
        THEN [stake_token_payout |-> 0, payment_token_payout |-> 0]
        ELSE [stake_token_payout |-> u + ((u * I) \div C),
              payment_token_payout |-> (u * F) \div C]

\* C3 -- claim payout formula: on a Finalized request, with C the bond_size of
\* the windows bonded on the finalized outcome, I the bond_size of the windows
\* bonded on another outcome, u the claimant's stake on the finalized outcome in
\* the windows of C and F the paid fee, claim returns the stake payout
\* u + floor(u*I/C) and the fee payout floor(u*F/C), and (0, 0) when C = 0;
\* windows without a bonded outcome count in neither sum.
C3_ClaimFormula ==
    \A i \in Requests, a \in Accounts :
        IsFinalized(i) => ClaimOf(i, a).res = ExpectedClaim(i, a)

\* one staker has been paid and another still holds correct stake that earns a
\* share of the incorrect stake; the request ends in a window without bonded outcome
C3_Witness ==
    \E i \in Requests :
        /\ IsFinalized(i)
        /\ IncorrectWindows(i) # {}
        /\ \E a, b \in Stakers :
              /\ claim_log[i][a].n = 1
              /\ OwnCorrectStake(i, b) > 0
              /\ ExpectedClaim(i, b).stake_token_payout > OwnCorrectStake(i, b)
        /\ DOMAIN Windows(i) \ BondedWindows(i) # {}

AlreadyFinalized == "Error DataRequest is already finalized"

\* C4 -- lifecycle: a request is finalized at most once; a Finalized request
\* keeps the outcome it was finalized with, and dr_stake, dr_finalize,
\* dr_finalize_by_provider and dr_final_arbitrator_finalize on it all fail (and
\* so leave it unchanged), for every caller and every argument.
C4_Lifecycle ==
    \A i \in Requests :
        /\ Len(finalize_log[i]) <= 1
        /\ IsFinalized(i) <=> Len(finalize_log[i]) = 1
        /\ IsFinalized(i) =>
              /\ data_requests[i].finalized_outcome = finalize_log[i][1].outcome
              /\ dr_get_expect_active(i - 1) = AlreadyFinalized
              /\ dr_finalize_err(i - 1) = AlreadyFinalized
              /\ \A sender \in Stakers, predecessor \in Accounts, amount \in 0..MaxAmount,
                    outcome \in Outcomes :
                      dr_stake_err(sender, predecessor, amount, i - 1, outcome) = AlreadyFinalized
              /\ \A predecessor \in Accounts, outcome \in Outcomes :
                      /\ dr_finalize_by_provider_err(predecessor, i - 1, outcome)
                            = AlreadyFinalized
                      /\ dr_final_arbitrator_finalize_err(predecessor, i - 1, outcome)
                            = AlreadyFinalized

\* a Finalized request on which calls went on: a claim was paid after finalization
C4_Witness ==
    \E i \in Requests :
        /\ IsFinalized(i)
        /\ Len(Windows(i)) >= 2
        /\ \E a \in Stakers : claim_log[i][a].n = 1

\* C5 -- finalization gating: while the oracle is not paused, dr_finalize on an
\* Active request fails (and so leaves it Active and unchanged) when the request
\* has fewer than 2 windows, or block_timestamp is less than the last window's
\* end_time, or final_arbitrator_triggered is set; it succeeds when none of
\* these holds.
C5_FinalizeGating ==
    \A i \in Requests :
        (IsActive(i) /\ ~paused) =>
            LET W == Windows(i)
                blocked == \/ Len(W) < 2
                           \/ block_timestamp < W[Len(W)].end_time
                           \/ data_requests[i].final_arbitrator_triggered
            IN  /\ blocked => dr_finalize_err(i - 1) # ""
                /\ ~blocked => dr_finalize_err(i - 1) = ""

\* dr_finalize has succeeded at the very time the last window ended
C5_Witness ==
    \E i \in Requests :
        /\ IsFinalized(i)
        /\ finalize_log[i][1].by = "dr_finalize"
        /\ block_timestamp = Windows(i)[Len(Windows(i))].end_time
        /\ block_timestamp > 0

\* C6 -- a successful dr_finalize sets finalized_outcome to the bonded_outcome of
\* the second-to-last window, which is the window bonded last (every window
\* before the last one is bonded, the last one is not), and leaves the sequence
\* of windows as it was.
C6_FinalOutcome ==
    [][\A id \in inputs.request_ids :
          dr_finalize(id) =>
              LET W == data_requests[id + 1].resolution_windows
              IN  /\ data_requests'[id + 1].kind = "Finalized"
                  /\ W[Len(W) - 1].bonded_outcome # NoOutcome
                  /\ data_requests'[id + 1].finalized_outcome = W[Len(W) - 1].bonded_outcome
                  /\ \A k \in DOMAIN W : (W[k].bonded_outcome # NoOutcome) <=> (k < Len(W))
                  /\ data_requests'[id + 1].resolution_windows = W]_vars

\* dr_finalize has finalized a request of three windows on the outcome of the second
C6_Witness ==
    \E i \in Requests :
        /\ IsFinalized(i)
        /\ finalize_log[i][1].by = "dr_finalize"
        /\ Len(Windows(i)) = 3
        /\ data_requests[i].finalized_outcome = Windows(i)[2].bonded_outcome
        /\ data_requests[i].finalized_outcome # Windows(i)[1].bonded_outcome

Incompatible == "Outcome is incompatible for this round"

\* the outcome bonded in the window before the last one of request i
PreviousOutcome(i) == Windows(i)[Len(Windows(i)) - 1].bonded_outcome

\* C7 as stated -- round gating: when an Active request has at least two windows,
\* dr_stake on the bonded_outcome of the window before the last one fails with the
\* incompatibility error, for any amount and any staker.
C7_AsStated ==
    \A i \in Requests :
        (IsActive(i) /\ Len(Windows(i)) >= 2) =>
            \A sender \in Stakers, amount \in 0..MaxAmount :
                dr_stake_err(sender, TokenAccount, amount, i - 1, PreviousOutcome(i))
                    = Incompatible

\* C7 -- round gating: when an Active request has at least two windows and the
\* final arbitrator has not been triggered, dr_stake on the bonded_outcome of
\* the window before the last one fails with the incompatibility error (and so
\* changes no state), for any amount and any staker; once the final arbitrator
\* is triggered the call still fails, with the final arbitrator's error.
C7_RoundGating ==
    \A i \in Requests :
        (IsActive(i) /\ Len(Windows(i)) >= 2) =>
            \A sender \in Stakers, amount \in 0..MaxAmount :
                dr_stake_err(sender, TokenAccount, amount, i - 1, PreviousOutcome(i))
                    = IF data_requests[i].final_arbitrator_triggered
                      THEN "Final arbitrator is invoked for DataRequest"
                      ELSE Incompatible

\* a second round is open and holds stake on an outcome other than the one
\* bonded in the first round
C7_Witness ==
    \E i \in Requests :
        /\ IsActive(i)
        /\ Len(Windows(i)) = 2
        /\ ~data_requests[i].final_arbitrator_triggered
        /\ Windows(i)[2].outcome_to_stake[PreviousOutcome(i)] = 0
        /\ \E o \in Outcomes : Windows(i)[2].outcome_to_stake[o] > 0

\* C8 -- for every dr_stake(amount) on outcome o that is accepted, the window
\* that is the last one when the call is made (the round-0 window the call
\* creates, when there is none) gains accepted = min(amount, bond_size - stake
\* on o) on o, the sender is credited the same accepted amount, and the call
\* returns unspent = amount - accepted.
C8_StakeAccepted ==
    \A i \in Requests :
        IsActive(i) =>
            \A sender \in Stakers, amount \in 0..MaxAmount, o \in Outcomes :
                dr_stake_err(sender, TokenAccount, amount, i - 1, o) = "" =>
                    LET n == Len(Windows(i))
                        t == IF n = 0 THEN 1 ELSE n
                        before == IF n = 0 THEN 0 ELSE Windows(i)[n].outcome_to_stake[o]
                        own == IF n = 0 THEN 0
                               ELSE Windows(i)[n].user_to_outcome_to_stake[sender][o]
                        after == ActiveDataRequest_stake(data_requests[i], sender, o, amount,
                                                         block_timestamp).dr.resolution_windows[t]
                        accepted == Min(amount, after.bond_size - before)
                        unspent == dr_stake_returns(sender, amount, i - 1, o)
                    IN  /\ after.outcome_to_stake[o] = before + accepted
                        /\ after.user_to_outcome_to_stake[sender][o] = own + accepted
                        /\ unspent = amount - accepted
                        /\ accepted >= 0 /\ unspent >= 0

\* the last dr_stake returned a part of its amount, and the window it filled is bonded
C8_Witness ==
    /\ stake_log.unspent > 0
    /\ \E i \in Requests : IsActive(i) /\ BondedWindows(i) # {}

\* C9 -- bond doubling: in every state and for every request, Active or
\* Finalized, each window's bond_size is twice the bond_size of the window
\* before it, the trailing open window included.
C9_BondDoubling ==
    \A i \in Requests :
        \A k \in DOMAIN Windows(i) :
            k > 1 => Windows(i)[k].bond_size = 2 * Windows(i)[k - 1].bond_size

\* a request with three windows, the last of them open
C9_Witness ==
    \E i \in Requests :
        /\ IsActive(i)
        /\ Len(Windows(i)) = 3
        /\ Windows(i)[3].bonded_outcome = NoOutcome
        /\ Windows(i)[1].bond_size > 0

\* window k of request i gets its bonded outcome in this step
NewlyBonded(i, k) ==
    /\ data_requests'[i].resolution_windows[k].bonded_outcome # NoOutcome
    /\ \/ k \notin DOMAIN Windows(i)
       \/ Windows(i)[k].bonded_outcome = NoOutcome

\* C10 -- final-arbitrator trigger: a stake that bonds a window whose bond_size
\* is at least final_arbitrator_invoke_amount sets final_arbitrator_triggered
\* and opens no window; one that bonds a window below the threshold opens a new
\* window and leaves the flag unset; while the flag is set every dr_stake on the
\* request is rejected, and the flag is never unset.
C10_FinalArbitratorTrigger ==
    [][\A i \in Requests :
          IsActive(i) =>
              /\ data_requests[i].final_arbitrator_triggered =>
                    \A sender \in Stakers, predecessor \in Accounts, amount \in 0..MaxAmount,
                       outcome \in Outcomes :
                          dr_stake_err(sender, predecessor, amount, i - 1, outcome) # ""
              /\ data_requests'[i].kind = "Active" =>
                    LET after == data_requests'[i]
                        threshold == data_requests[i].request_config.final_arbitrator_invoke_amount
                    IN  /\ data_requests[i].final_arbitrator_triggered
                              => after.final_arbitrator_triggered
                        /\ \A k \in DOMAIN after.resolution_windows :
                              NewlyBonded(i, k) =>
                                  IF after.resolution_windows[k].bond_size >= threshold
                                  THEN /\ after.final_arbitrator_triggered
                                       /\ Len(after.resolution_windows) = k
                                  ELSE /\ ~after.final_arbitrator_triggered
                                       /\ Len(after.resolution_windows) = k + 1
                                       /\ after.resolution_windows[k + 1].bonded_outcome
                                             = NoOutcome]_vars

\* the second window reached the threshold: it is bonded, the flag is set and
\* no third window exists
C10_Witness ==
    \E i \in Requests :
        /\ IsActive(i)
        /\ data_requests[i].final_arbitrator_triggered
        /\ Len(Windows(i)) = 2
        /\ BondedWindows(i) = {1, 2}
        /\ Windows(i)[2].bond_size >= data_requests[i].request_config.final_arbitrator_invoke_amount
        /\ Windows(i)[1].bond_size < data_requests[i].request_config.final_arbitrator_invoke_amount

\* C11 -- dr_final_arbitrator_finalize succeeds only when the caller is the
\* final_arbitrator account pinned in the request's config and the request's
\* final_arbitrator_triggered is true: for every other caller and for every
\* request whose flag is unset the call fails (and changes nothing).  A call
\* that succeeds makes the request Finalized with finalized_outcome equal to the
\* outcome supplied, whatever the windows' bonded outcomes are.
C11_FinalArbitratorFinalize ==
    /\ [](\A id \in inputs.request_ids, p \in Accounts, o \in Outcomes :
            (dr_exists(id) /\ data_requests[id + 1].kind = "Active") =>
                LET dr == data_requests[id + 1]
                    allowed == /\ p = dr.request_config.final_arbitrator
                               /\ dr.final_arbitrator_triggered
                IN  /\ dr_final_arbitrator_finalize_err(p, id, o) = "" => allowed
                    /\ ~allowed => dr_final_arbitrator_finalize_err(p, id, o) # "")
    /\ [][\A id \in inputs.request_ids, p \in Accounts, o \in Outcomes :
            dr_final_arbitrator_finalize(p, id, o) =>
                /\ p = data_requests[id + 1].request_config.final_arbitrator
                /\ data_requests[id + 1].final_arbitrator_triggered
                /\ data_requests'[id + 1].kind = "Finalized"
                /\ data_requests'[id + 1].finalized_outcome = o]_vars

\* the final arbitrator has finalized a request on an outcome that no window is bonded on
C11_Witness ==
    \E i \in Requests :
        /\ IsFinalized(i)
        /\ finalize_log[i][1].by = "dr_final_arbitrator_finalize"
        /\ data_requests[i].finalized_outcome = finalize_log[i][1].outcome
        /\ BondedWindows(i) # {}
        /\ \A k \in DOMAIN Windows(i) :
              Windows(i)[k].bonded_outcome # data_requests[i].finalized_outcome

\* the amounts an unstake is tried with
UnstakeAmounts == {0} \cup inputs.unstake_amounts \cup inputs.stake_amounts

\* C12 -- unstake(staker, outcome, amount) on a window fails when the window's
\* bonded_outcome equals the outcome, for any amount including 0; otherwise it
\* fails when the staker's stake on that outcome in that window is less than the
\* amount; a failing call changes no stake.  Otherwise it succeeds: the window's
\* outcome_to_stake[outcome] and the staker's own stake on the outcome both
\* decrease by exactly amount, nothing else in the window changes, and dr_unstake
\* issues one transfer of exactly amount of the stake token to the caller.
C12_Unstake ==
    /\ [](\A i \in Requests, s \in Stakers, o \in Outcomes, amount \in UnstakeAmounts :
            \A k \in DOMAIN Windows(i) :
                LET w == Windows(i)[k]
                    err == ResolutionWindow_unstake_err(w, s, o, amount)
                    u == ResolutionWindow_unstake(w, s, o, amount)
                IN  /\ dr_unstake_err(s, i - 1, k - 1, o, amount) = err
                    /\ IF w.bonded_outcome = o
                       THEN err = "Cannot withdraw from bonded outcome"
                       ELSE IF w.user_to_outcome_to_stake[s][o] < amount
                       THEN err = "has less staked on this outcome than unstake amount"
                       ELSE /\ err = ""
                            /\ u.amount = amount
                            /\ u.window.outcome_to_stake[o] = w.outcome_to_stake[o] - amount
                            /\ u.window.user_to_outcome_to_stake[s][o] =
                                   w.user_to_outcome_to_stake[s][o] - amount
                            /\ u.window.outcome_to_stake[o] >= 0
                            /\ \A o2 \in Outcomes \ {o} :
                                   u.window.outcome_to_stake[o2] = w.outcome_to_stake[o2]
                            /\ \A s2 \in Stakers, o2 \in Outcomes :
                                   (s2 # s \/ o2 # o) =>
                                       u.window.user_to_outcome_to_stake[s2][o2] =
                                           w.user_to_outcome_to_stake[s2][o2]
                            /\ dr_unstake_promises(s, i - 1, k - 1, o, amount) =
                                   <<Transfer(configs[1].stake_token, s, amount)>>)
    /\ [][\A id \in inputs.request_ids, s \in Stakers, round \in 0..2,
             o \in inputs.stake_outcomes, amount \in inputs.unstake_amounts :
            dr_unstake(s, id, round, o, amount) =>
                LET w == data_requests[id + 1].resolution_windows[round + 1]
                    w2 == data_requests'[id + 1].resolution_windows[round + 1]
                IN  /\ w.bonded_outcome # o
                    /\ w.user_to_outcome_to_stake[s][o] >= amount
                    /\ w2.outcome_to_stake[o] = w.outcome_to_stake[o] - amount
                    /\ w2.user_to_outcome_to_stake[s][o] =
                           w.user_to_outcome_to_stake[s][o] - amount]_vars

\* a staker has withdrawn 200 from an outcome that is not the bonded one of its
\* window and was refunded 200 of the stake token
C12_Witness ==
    /\ call_log.op = "dr_unstake"
    /\ call_log.amount = 200
    /\ call_log.promises = <<Transfer(TokenAccount, call_log.account, 200)>>
    /\ LET w == Windows(call_log.request_id + 1)[call_log.round + 1]
       IN  /\ w.bonded_outcome # NoOutcome
           /\ w.bonded_outcome # call_log.outcome

\* C13 -- dr_unstake can withdraw stake that an account holds on an outcome that
\* is not the bonded outcome of its window from any window of the request, not
\* only the last one, and in any lifecycle state of the request: while it is
\* Active, after it is Finalized, and after claims were paid.
C13_UnstakeAnyTime ==
    \A i \in Requests, s \in Stakers, o \in Outcomes, amount \in UnstakeAmounts :
        \A k \in DOMAIN Windows(i) :
            (/\ Windows(i)[k].bonded_outcome # o
             /\ Windows(i)[k].user_to_outcome_to_stake[s][o] >= amount) =>
                /\ dr_unstake_err(s, i - 1, k - 1, o, amount) = ""
                /\ DataRequest_unstake(data_requests[i], s, k - 1, o, amount).amount = amount
                /\ DataRequest_unstake(data_requests[i], s, k - 1, o, amount).dr.kind =
                       data_requests[i].kind

\* 200 was withdrawn from a window that is not the last one of a Finalized
\* request on which a claim had been paid before
C13_Witness ==
    /\ call_log.op = "dr_unstake"
    /\ call_log.found = "Finalized"
    /\ call_log.claims >= 1
    /\ call_log.amount = 200
    /\ call_log.round + 1 < Len(Windows(call_log.request_id + 1))
    /\ Windows(call_log.request_id + 1)[call_log.round + 1].bonded_outcome
           \notin {NoOutcome, call_log.outcome}

\* C14 -- dr_claim fails on a request that does not exist, on a request that is
\* still Active, and when both the stake payout and the fee payout of the
\* account are zero (a failing call changes no stake record).  Otherwise it
\* succeeds and issues a transfer of the stake payout in the stake token, if it
\* is nonzero, and a transfer of the fee payout in the payment token, if it is
\* nonzero, both to the account claimed for, and nothing else.
C14_Claim ==
    /\ [](\A id \in 0..1, a \in Accounts :
            IF ~dr_exists(id)
            THEN dr_claim_err(a, id) = "Error no DataRequest with this id exists"
            ELSE IF data_requests[id + 1].kind = "Active"
            THEN dr_claim_err(a, id) = "Error DataRequest is not yet finalized"
            ELSE LET c == ClaimOf(id + 1, a).res
                     cfg == configs[data_requests[id + 1].global_config_id + 1]
                     stake == IF c.stake_token_payout > 0
                              THEN <<Transfer(cfg.stake_token, a, c.stake_token_payout)>>
                              ELSE <<>>
                     fee == IF c.payment_token_payout > 0
                            THEN <<Transfer(cfg.payment_token, a, c.payment_token_payout)>>
                            ELSE <<>>
                 IN  IF c.stake_token_payout = 0 /\ c.payment_token_payout = 0
                     THEN dr_claim_err(a, id) = "can't claim 0"
                     ELSE /\ dr_claim_err(a, id) = ""
                          /\ dr_claim_promises(cfg, a, c) = stake \o fee)
    /\ [][\A id \in inputs.request_ids, a \in Stakers :
            dr_claim(a, id) =>
                /\ data_requests[id + 1].kind = "Finalized"
                /\ ClaimOf(id + 1, a).res # NoClaim
                /\ claim_log'[id + 1][a].stake =
                       claim_log[id + 1][a].stake + ClaimOf(id + 1, a).res.stake_token_payout
                /\ claim_log'[id + 1][a].fee =
                       claim_log[id + 1][a].fee + ClaimOf(id + 1, a).res.payment_token_payout]_vars

\* dr_claim has paid an account both a stake payout and a fee payout, while
\* another account has nothing to claim
C14_Witness ==
    \E i \in Requests, a \in Stakers, b \in Stakers :
        /\ IsFinalized(i)
        /\ claim_log[i][a].n = 1
        /\ claim_log[i][a].stake > 0
        /\ claim_log[i][a].fee > 0
        /\ dr_claim_err(b, i - 1) = "can't claim 0"
        /\ ~dr_exists(i)

\* nothing is left to claim on request i: a claim returns (0, 0) for every account
AllClaimed(i) == \A a \in Accounts : ClaimOf(i, a).res = NoClaim

\* the accounts dr_claim has paid on request i
Claimants(i) == {a \in Accounts : claim_log[i][a].n >= 1}

\* the part of the bonded stake of request i that dr_claim has not paid out
Unpaid(i) == BondOf(i, BondedWindows(i)) - StakePaid(i)

\* C15 -- dust only: for every Finalized request, however it was finalized (by
\* timeout, by the final arbitrator, by the provider), once every account that
\* holds stake has claimed, the part of the bonded stake (the sum of bond_size
\* over the windows with a bonded outcome) that was not paid out is
\* non-negative and smaller than the number of claimants (and nothing is unpaid
\* when there is no claimant because no stake was bonded).
C15_DustOnly ==
    \A i \in Requests :
        (IsFinalized(i) /\ AllClaimed(i)) =>
            /\ Unpaid(i) >= 0
            /\ Unpaid(i) = 0 \/ Unpaid(i) < Cardinality(Claimants(i))

\* a request was finalized on an outcome that none of its windows is bonded on:
\* claims pay nothing and the whole bonded stake stays in the contract
C15_StakeLocked ==
    \E i \in Requests :
        /\ IsFinalized(i)
        /\ BondedWindows(i) # {}
        /\ CorrectWindows(i) = {}
        /\ AllClaimed(i)
        /\ \A a \in Stakers : dr_claim_err(a, i - 1) = "can't claim 0"
        /\ Unpaid(i) = BondOf(i, BondedWindows(i))
        /\ Unpaid(i) >= 200

\* account a holds all the stake on the bonded outcome of every window of
\* request i that is bonded on the finalized outcome (and there is such a window)
SoleCorrectStaker(i, a) ==
    /\ CorrectWindows(i) # {}
    /\ \A k \in CorrectWindows(i) :
          Windows(i)[k].user_to_outcome_to_stake[a][data_requests[i].finalized_outcome] =
              Windows(i)[k].bond_size

\* C16 -- when a single account holds all the stake on the bonded outcome of
\* every window that matches the finalized outcome, its claim pays the whole
\* bonded pool (the sum of bond_size over all bonded windows, matching or not) as
\* stake payout and the whole paid_fee as fee payout, without dust; in
\* particular a sole staker who fills round 0 with 200 on a request without fee
\* is paid exactly 200.
C16_SoleStaker ==
    \A i \in Requests, a \in Stakers :
        (IsFinalized(i) /\ SoleCorrectStaker(i, a)) =>
            /\ ClaimOf(i, a).res.stake_token_payout = BondOf(i, BondedWindows(i))
            /\ ClaimOf(i, a).res.payment_token_payout = data_requests[i].paid_fee
            /\ dr_claim_err(a, i - 1) = ""
            /\ (BondedWindows(i) = {1} /\ data_requests[i].paid_fee = 0) =>
                  /\ Windows(i)[1].bond_size = 200
                  /\ ClaimOf(i, a).res = [payment_token_payout |-> 0,
                                          stake_token_payout |-> 200]

\* the sole staker of the window bonded last was paid the whole pool of 600, of
\* which 200 were bonded on another outcome, and the whole fee of 50
C16_Witness ==
    \E i \in Requests, a \in Stakers :
        /\ IsFinalized(i)
        /\ IncorrectWindows(i) # {}
        /\ BondOf(i, BondedWindows(i)) = 600
        /\ data_requests[i].paid_fee = 50
        /\ claim_log[i][a] = [n |-> 1, stake |-> 600, fee |-> 50]
        /\ Unpaid(i) = 0

FinalizeOps == {"dr_finalize", "dr_finalize_by_provider", "dr_final_arbitrator_finalize"}

\* the transfers of the validity bond to the requester among the promises of the
\* call that finalized request id
BondReturns(id) ==
    LET cfg == configs[data_requests[id + 1].global_config_id + 1]
    IN  {n \in DOMAIN call_log.promises :
            call_log.promises[n] =
                Transfer(cfg.payment_token, RequesterAccount, cfg.validity_bond)}

\* C17 -- whenever a request becomes Finalized with an Answer outcome, by any of
\* the finalization operations, a transfer of the request's validity_bond to
\* the requester is issued exactly once; when it becomes Finalized with Invalid,
\* no transfer to the requester is issued.
C17_ValidityBondReturned ==
    call_log.op \in FinalizeOps =>
        LET id == call_log.request_id
        IN  /\ IsFinalized(id + 1)
            /\ Cardinality(BondReturns(id)) =
                   IF data_requests[id + 1].finalized_outcome = OutInvalid THEN 0 ELSE 1
            /\ \A n \in DOMAIN call_log.promises :
                   call_log.promises[n].kind = "ft_transfer" => n \in BondReturns(id)

\* the provider has finalized a request with an Answer and the call issued no
\* transfer at all
C17_BondKept ==
    /\ call_log.op = "dr_finalize_by_provider"
    /\ data_requests[call_log.request_id + 1].finalized_outcome \in {OutA, OutB}
    /\ call_log.promises =
           <<SetOutcome(RequesterAccount, data_requests[call_log.request_id + 1].finalized_outcome)>>

\* the fee payouts dr_claim has made on request i
FeePaid(i) == SumOver(Accounts, [a \in Accounts |-> claim_log[i][a].fee])

ValidityBondOf(i) == configs[data_requests[i].global_config_id + 1].validity_bond

\* C18 -- when a request is Finalized with Invalid, the requester's validity bond
\* is forfeited to the stakers: the fee payouts that the correct stakers obtain
\* through claim include the validity bond in addition to the paid fee (once
\* all of them have claimed, up to floor-division dust of less than one unit
\* per claimant).
C18_BondForfeitedToStakers ==
    \A i \in Requests :
        (/\ IsFinalized(i)
         /\ data_requests[i].finalized_outcome = OutInvalid
         /\ CorrectWindows(i) # {}
         /\ AllClaimed(i)) =>
            /\ FeePaid(i) <= data_requests[i].paid_fee + ValidityBondOf(i)
            /\ FeePaid(i) > data_requests[i].paid_fee + ValidityBondOf(i)
                                - Cardinality(Claimants(i))

\* a request was finalized with Invalid by timeout, no transfer to the requester
\* was issued, and the staker who bonded Invalid was paid the fee of 50 only
C18_BondKept ==
    \E i \in Requests, a \in Stakers :
        /\ IsFinalized(i)
        /\ data_requests[i].finalized_outcome = OutInvalid
        /\ call_log.op = "dr_finalize"
        /\ call_log.promises = <<SetOutcome(RequesterAccount, OutInvalid)>>
        /\ AllClaimed(i)
        /\ Claimants(i) = {a}
        /\ data_requests[i].paid_fee = 50
        /\ ValidityBondOf(i) = 100
        /\ claim_log[i][a].fee = 50
        /\ FeePaid(i) = 50

\* The worked scenario: the contract of the unit tests (validity_bond 100, no
\* fee, default_challenge_window_duration 1000, final_arbitrator_invoke_amount
\* 1,000,000), a request with challenge_period 1500, 200 staked on a at time 0
\* and then 400 on b, also at time 0; it is now time 1501.
Scenario1501(i) ==
    /\ configs[data_requests[i].global_config_id + 1] = config
    /\ block_timestamp = 1501
    /\ Len(Windows(i)) = 3
    /\ Windows(i)[1].start_time = 0
    /\ Windows(i)[1].bond_size = 200
    /\ Windows(i)[1].bonded_outcome = OutA
    /\ Windows(i)[2].start_time = 0
    /\ Windows(i)[2].bond_size = 400
    /\ Windows(i)[2].bonded_outcome = OutB
    /\ Windows(i)[3].start_time = 0
    /\ Windows(i)[3].bonded_outcome = NoOutcome

\* C19 as stated -- in the worked scenario dr_finalize at time 1501 succeeds and
\* the finalized outcome is a.
C19_AsStated ==
    \A i \in Requests :
        (IsActive(i) /\ data_requests[i].request_config.paid_fee = 0 /\ Scenario1501(i)) =>
            /\ dr_finalize_err(i - 1) = ""
            /\ trim_dr(data_requests[i], get_final_outcome(data_requests[i])).finalized_outcome
                   = OutA

\* C19 -- in the worked scenario dr_finalize at time 1501 succeeds and the
\* finalized outcome is b, the outcome bonded in round 1 (the second-to-last of
\* the three windows); the finalized outcome is a when only the 200 on a were
\* staked, so that the request has two windows.
C19_WorkedScenario ==
    /\ [](\A i \in Requests :
            (IsActive(i) /\ data_requests[i].request_config.paid_fee = 0) =>
                /\ Scenario1501(i) =>
                      /\ dr_finalize_err(i - 1) = ""
                      /\ get_final_outcome(data_requests[i]) = OutB
                /\ (/\ configs[data_requests[i].global_config_id + 1] = config
                     /\ block_timestamp = 1501
                     /\ Len(Windows(i)) = 2
                     /\ Windows(i)[1].start_time = 0
                     /\ Windows(i)[1].bonded_outcome = OutA) =>
                      /\ dr_finalize_err(i - 1) = ""
                      /\ get_final_outcome(data_requests[i]) = OutA)
    /\ [][\A id \in inputs.request_ids :
            (dr_finalize(id) /\ Scenario1501(id + 1)) =>
                /\ data_requests'[id + 1].kind = "Finalized"
                /\ data_requests'[id + 1].finalized_outcome = OutB
                /\ Len(data_requests'[id + 1].resolution_windows) = 3]_vars

\* dr_finalize has finalized the request of the worked scenario at time 1501, on b
C19_Witness ==
    \E i \in Requests :
        /\ IsFinalized(i)
        /\ data_requests[i].paid_fee = 0
        /\ Scenario1501(i)
        /\ call_log.op = "dr_finalize"
        /\ finalize_log[i] = <<[by |-> "dr_finalize", outcome |-> OutB]>>
        /\ data_requests[i].finalized_outcome = OutB

\* the challenge period of the window of round k - 1 of the Active request i
PeriodOf(i, k) ==
    IF k <= 2 THEN data_requests[i].initial_challenge_period
    ELSE data_requests[i].request_config.default_challenge_window_duration

\* C20 -- window timing: a window's end_time is its creation time plus its
\* period, and the period is the request's challenge_period for round 0 and for
\* round 1 and default_challenge_window_duration for every round from 2 on.  So
\* with validity_bond 100, challenge_period 1500 and a default duration of 1000,
\* staking 200 on a and then 400 on b at time t gives exactly three windows with
\* (bond_size, end_time) = (200, t + 1500), (400, t + 1500), (800, t + 1000).
C20_WindowTiming ==
    /\ [](\A i \in Requests :
            IsActive(i) =>
                /\ \A k \in DOMAIN Windows(i) :
                      Windows(i)[k].end_time = Windows(i)[k].start_time + PeriodOf(i, k)
                /\ (/\ configs[data_requests[i].global_config_id + 1] = config
                     /\ data_requests[i].initial_challenge_period = 1500
                     /\ Len(Windows(i)) >= 2
                     /\ Windows(i)[1].bonded_outcome = OutA
                     /\ Windows(i)[2].bonded_outcome = OutB
                     /\ Windows(i)[2].start_time = Windows(i)[1].start_time) =>
                      LET t == Windows(i)[1].start_time
                      IN  /\ Len(Windows(i)) = 3
                          /\ Windows(i)[3].start_time = t =>
                                [k \in 1..3 |->
                                   <<Windows(i)[k].bond_size, Windows(i)[k].end_time>>] =
                                << <<200, t + 1500>>, <<400, t + 1500>>, <<800, t + 1000>> >>)
    /\ [][\A id \in inputs.request_ids :
            (/\ dr_exists(id)
             /\ data_requests[id + 1].kind = "Active"
             /\ data_requests'[id + 1].kind = "Active") =>
                \A k \in DOMAIN data_requests'[id + 1].resolution_windows :
                    IF k \in DOMAIN data_requests[id + 1].resolution_windows
                    THEN /\ data_requests'[id + 1].resolution_windows[k].start_time =
                               data_requests[id + 1].resolution_windows[k].start_time
                         /\ data_requests'[id + 1].resolution_windows[k].end_time =
                               data_requests[id + 1].resolution_windows[k].end_time
                    ELSE data_requests'[id + 1].resolution_windows[k].start_time =
                             block_timestamp]_vars

\* 200 on a and 400 on b were staked at time 1501: three windows with
\* (bond_size, end_time) = (200, 3001), (400, 3001), (800, 2501)
C20_Witness ==
    \E i \in Requests :
        /\ IsActive(i)
        /\ configs[data_requests[i].global_config_id + 1] = config
        /\ Len(Windows(i)) = 3
        /\ Windows(i)[1].bonded_outcome = OutA
        /\ Windows(i)[2].bonded_outcome = OutB
        /\ [k \in 1..Len(Windows(i)) |->
              <<Windows(i)[k].start_time, Windows(i)[k].bond_size, Windows(i)[k].end_time>>] =
           << <<1501, 200, 3001>>, <<1501, 400, 3001>>, <<1501, 800, 2501>> >>

\* C21 as stated -- only round 0 uses the request's initial challenge period:
\* every window opened because the previous window was bonded (round 1 and
\* later) has end_time = its creation time + default_challenge_window_duration.
C21_AsStated ==
    \A i \in Requests :
        IsActive(i) =>
            \A k \in DOMAIN Windows(i) :
                k >= 2 =>
                    Windows(i)[k].end_time =
                        Windows(i)[k].start_time +
                            data_requests[i].request_config.default_challenge_window_duration

\* C21 -- the windows of round 0 and of round 1 both use the request's initial
\* challenge period; the windows opened because the window of round 1 or of a
\* later round was bonded (round 2 and later) have end_time = creation time +
\* default_challenge_window_duration.
C21_DefaultFromRound2 ==
    \A i \in Requests :
        IsActive(i) =>
            \A k \in DOMAIN Windows(i) :
                LET w == Windows(i)[k]
                    dr == data_requests[i]
                IN  /\ w.round = 0 => w.end_time = w.start_time + dr.initial_challenge_period
                    /\ w.round = 1 => w.end_time = w.start_time + dr.initial_challenge_period
                    /\ w.round >= 2 =>
                          w.end_time =
                              w.start_time + dr.request_config.default_challenge_window_duration

\* a request whose initial challenge period (1500) differs from the default
\* duration (1000) has a window of round 1 that ends 1500 after its creation
\* and a window of round 2 that ends 1000 after its creation
C21_Witness ==
    \E i \in Requests :
        /\ IsActive(i)
        /\ Len(Windows(i)) = 3
        /\ Windows(i)[2].round = 1
        /\ Windows(i)[2].end_time = Windows(i)[2].start_time + 1500
        /\ Windows(i)[3].round = 2
        /\ Windows(i)[3].end_time = Windows(i)[3].start_time + 1000
        /\ Windows(i)[3].start_time > Windows(i)[2].start_time

\* the largest element of a non-empty set of numbers
MaxOf(S) == CHOOSE m \in S : \A x \in S : m >= x

\* the stake multiplier of the requester (a percentage) applied to
\* max(paid_fee, validity_bond, min_resolution_bond) of the Active request i
ResolutionBondOf(i) ==
    LET c == data_requests[i].request_config
        m == MaxOf({c.paid_fee, c.validity_bond, c.min_resolution_bond})
    IN  IF c.stake_multiplier.some THEN (m * c.stake_multiplier.value) \div 100 ELSE m

\* C22 as stated -- the window of round 0 has bond_size equal to
\* calc_resolution_bond(), the stake multiplier applied to max(paid_fee,
\* validity_bond, min_resolution_bond), and end_time equal to the time of the
\* first stake plus the request's initial challenge period.
C22_AsStated ==
    \A i \in Requests :
        (IsActive(i) /\ Len(Windows(i)) >= 1) =>
            /\ calc_resolution_bond(data_requests[i]) = ResolutionBondOf(i)
            /\ Windows(i)[1].bond_size = calc_resolution_bond(data_requests[i])
            /\ Windows(i)[1].end_time =
                   Windows(i)[1].start_time + data_requests[i].initial_challenge_period

\* C22 -- the window of round 0, created by the first stake on a request, has
\* bond_size equal to twice calc_resolution_bond(), which is the stake
\* multiplier applied to max(paid_fee, validity_bond, min_resolution_bond), and
\* end_time equal to the time of that stake plus the request's initial
\* challenge period.
C22_RoundZeroWindow ==
    /\ [](\A i \in Requests :
            (IsActive(i) /\ Len(Windows(i)) >= 1) =>
                /\ calc_resolution_bond(data_requests[i]) = ResolutionBondOf(i)
                /\ Windows(i)[1].round = 0
                /\ Windows(i)[1].bond_size = 2 * ResolutionBondOf(i)
                /\ Windows(i)[1].end_time =
                       Windows(i)[1].start_time + data_requests[i].initial_challenge_period)
    /\ [][\A id \in inputs.request_ids :
            (/\ dr_exists(id)
             /\ data_requests[id + 1].kind = "Active"
             /\ Len(data_requests[id + 1].resolution_windows) = 0
             /\ Len(data_requests'[id + 1].resolution_windows) >= 1) =>
                /\ data_requests'[id + 1].resolution_windows[1].start_time = block_timestamp
                /\ data_requests'[id + 1].resolution_windows[1].end_time =
                       block_timestamp + data_requests[id + 1].initial_challenge_period
                /\ data_requests'[id + 1].resolution_windows[1].bond_size =
                       2 * calc_resolution_bond(data_requests[id + 1])]_vars

\* a request with fee 4, validity_bond 2, min_resolution_bond 5 and a stake
\* multiplier of 150 percent has a window of round 0, created at time 1, with
\* bond_size 14 = 2 * floor(5 * 150 / 100) and end_time 3
C22_Witness ==
    \E i \in Requests :
        /\ IsActive(i)
        /\ data_requests[i].request_config.paid_fee = 4
        /\ data_requests[i].request_config.min_resolution_bond = 5
        /\ data_requests[i].request_config.stake_multiplier = SomeMultiplier(150)
        /\ Len(Windows(i)) >= 1
        /\ Windows(i)[1].start_time = 1
        /\ Windows(i)[1].bond_size = 14
        /\ Windows(i)[1].end_time = 3

\* the sum over all outcomes of the stake totals of window w
TotalStake(w) == SumOver(Outcomes, [o \in Outcomes |-> w.outcome_to_stake[o]])

\* C23 as stated -- in every reachable state and for every window, the sum
\* over all outcomes of stake_per_outcome does not exceed the window's bond_size.
C23_AsStated ==
    \A i \in Requests : \A k \in DOMAIN Windows(i) :
        TotalStake(Windows(i)[k]) <= Windows(i)[k].bond_size

\* C23 -- in every reachable state and for every window, the stake total of
\* each single outcome does not exceed the window's bond_size; the sum over all
\* outcomes can exceed it and is bounded by bond_size times the number of
\* outcomes that hold stake.
C23_StakePerOutcomeBounded ==
    \A i \in Requests : \A k \in DOMAIN Windows(i) :
        LET w == Windows(i)[k]
        IN  /\ \A o \in Outcomes : w.outcome_to_stake[o] >= 0
                                   /\ w.outcome_to_stake[o] <= w.bond_size
            /\ TotalStake(w) <=
                   w.bond_size * Cardinality({o \in Outcomes : w.outcome_to_stake[o] > 0})

\* a window holds more stake than its bond_size: one outcome is bonded and
\* another outcome holds stake as well
C23_Witness ==
    \E i \in Requests : \E k \in DOMAIN Windows(i) :
        /\ Windows(i)[k].bonded_outcome # NoOutcome
        /\ TotalStake(Windows(i)[k]) > Windows(i)[k].bond_size

\* the outcomes whose stake total in window w equals the window's bond_size
FullOutcomes(w) == {o \in Outcomes : w.outcome_to_stake[o] = w.bond_size}

\* C24 -- bonded-outcome integrity: for every window with bond_size > 0, no
\* outcome's stake total exceeds bond_size, at most one outcome's total equals
\* bond_size, bonded_outcome is set exactly when such an outcome exists and names
\* that outcome; once set, bonded_outcome is never changed or cleared by a later
\* stake, unstake, finalize or claim.
C24_BondedOutcomeIntegrity ==
    /\ [](\A i \in Requests : \A k \in DOMAIN Windows(i) :
            LET w == Windows(i)[k]
            IN  w.bond_size > 0 =>
                  /\ \A o \in Outcomes : w.outcome_to_stake[o] <= w.bond_size
                  /\ Cardinality(FullOutcomes(w)) <= 1
                  /\ (w.bonded_outcome # NoOutcome) <=> (FullOutcomes(w) # {})
                  /\ w.bonded_outcome # NoOutcome => FullOutcomes(w) = {w.bonded_outcome})
    /\ [][\A i \in Requests : \A k \in BondedWindows(i) :
            /\ i \in DOMAIN data_requests'
            /\ k \in DOMAIN data_requests'[i].resolution_windows
            /\ data_requests'[i].resolution_windows[k].bonded_outcome
                  = Windows(i)[k].bonded_outcome]_vars

\* a request was finalized and claimed from while one of its bonded windows
\* also holds stake on an outcome other than the bonded one
C24_Witness ==
    \E i \in Requests : \E k \in BondedWindows(i) : \E a \in Accounts :
        /\ IsFinalized(i)
        /\ claim_log[i][a] # NoClaim
        /\ Windows(i)[k].bond_size > 0
        /\ \E o \in Outcomes \ {Windows(i)[k].bonded_outcome} :
              Windows(i)[k].outcome_to_stake[o] > 0

\* C25 -- window sequence shape: windows are only appended and keep their
\* round; the window at position k (counted from 0) has round = k; every window
\* except the last has a bonded_outcome; on an Active request the last window
\* is unbonded exactly when final_arbitrator_triggered is false, so the
\* second-to-last window that dr_finalize reads is bonded.
C25_WindowSequence ==
    /\ [](\A i \in Requests :
            /\ \A k \in DOMAIN Windows(i) :
                  /\ Windows(i)[k].round = k - 1
                  /\ k < Len(Windows(i)) => Windows(i)[k].bonded_outcome # NoOutcome
            /\ IsActive(i) /\ Len(Windows(i)) > 0 =>
                  ((Windows(i)[Len(Windows(i))].bonded_outcome = NoOutcome)
                     <=> ~data_requests[i].final_arbitrator_triggered)
            /\ IsActive(i) /\ Len(Windows(i)) >= 2
                  /\ assert_can_finalize(data_requests[i], block_timestamp) = "" =>
                  get_final_outcome_err(data_requests[i]) = "")
    /\ [][\A i \in Requests :
            /\ i \in DOMAIN data_requests'
            /\ Len(data_requests'[i].resolution_windows) >= Len(Windows(i))
            /\ \A k \in DOMAIN Windows(i) :
                  data_requests'[i].resolution_windows[k].round = Windows(i)[k].round]_vars

\* an Active request of at least two windows whose last window was bonded by
\* the stake that triggered the final arbitrator
C25_Witness ==
    \E i \in Requests :
        /\ IsActive(i)
        /\ Len(Windows(i)) >= 2
        /\ data_requests[i].final_arbitrator_triggered
        /\ Windows(i)[Len(Windows(i))].bonded_outcome # NoOutcome

\* dr_stake rejects outcome o as invalid for request i: o is not in the
\* request's outcome list, or its type does not match the request's data_type
StakeRejectsAsInvalid(i, o) ==
    \/ assert_valid_outcome(data_requests[i], o) # ""
    \/ assert_valid_outcome_type(data_requests[i], o) # ""

\* C26 -- dr_final_arbitrator_finalize rejects every outcome that dr_stake
\* would reject as invalid for the request: an answer that is not in the
\* request's outcome allow-list, and an answer whose type (string, or number
\* with the request's multiplier) does not match the request's data_type.
C26_RejectsInvalidOutcomes ==
    \A i \in Requests : \A o \in Outcomes : \A predecessor \in Accounts :
        IsActive(i) /\ StakeRejectsAsInvalid(i, o) =>
            dr_final_arbitrator_finalize_err(predecessor, i - 1, o) # ""

\* the final arbitrator has finalized a request of data_type String, which has
\* no outcome list, with a number
C26_WronglyTypedOutcome ==
    \E i \in Requests :
        /\ IsFinalized(i)
        /\ data_requests[i].finalized_outcome.kind = "Number"
        /\ \E k \in DOMAIN finalize_log[i] :
              /\ finalize_log[i][k].by = "dr_final_arbitrator_finalize"
              /\ finalize_log[i][k].outcome = OutNum
        /\ \A payload \in inputs.payloads : payload.data_type = TypeString

\* payloads that violate none, one or several of the payload rules
RulePayloads ==
    {Payload(sources, description, outcomes, challenge_period, tags, TypeString, NoProvider) :
        sources \in {NoSources, SomeSources(1), SomeSources(9), SomeSources(256),
                     SomeSources(264)},
        description \in BOOLEAN,
        outcomes \in {NoOutcomeList, SomeOutcomeList({"a"}), SomeOutcomeList({"a", "b"}),
                      SomeOutcomeList({"a", "b", "c"})},
        challenge_period \in {0, 1, 7},
        tags \in {0, 9}}

\* the callers of dr_new that are tried
NewCallers == {TokenAccount, NewTokenAccount}

\* the error of the first precondition of dr_new that a call violates, the
\* preconditions taken in the stated order; "" when it violates none
FirstViolated(sender, predecessor, amount, payload) ==
    LET current == configs[Len(configs)]
        n_sources == IF payload.sources.some THEN payload.sources.len ELSE 0
        n_outcomes == Cardinality(payload.outcomes.list)
    IN  IF paused THEN "Oracle is paused"
        ELSE IF whitelist.some /\ ~(\E r \in whitelist.map : r.account_id = sender)
        THEN "Err predecessor is not whitelisted"
        ELSE IF predecessor # current.payment_token
        THEN "This function can only be called by"
        ELSE IF amount < current.validity_bond THEN "Validity bond not reached"
        ELSE IF ~payload.description /\ n_sources = 0
        THEN "Description should be filled when no sources are given"
        ELSE IF n_sources > MAX_SOURCES THEN "Too many sources provided"
        ELSE IF payload.challenge_period < current.min_initial_challenge_window_duration
        THEN "Challenge shorter than minimum challenge period"
        ELSE IF payload.challenge_period
                  > current.default_challenge_window_duration * MIN_PERIOD_MULTIPLIER
        THEN "Challenge period exceeds maximum challenge period"
        ELSE IF payload.tags > MAX_TAGS THEN "Too many tags provided"
        ELSE IF payload.outcomes.some
                /\ (n_outcomes > current.max_outcomes \/ n_outcomes < MIN_OUTCOMES)
        THEN "Invalid outcome list either exceeds min or max"
        ELSE ""

\* C27 -- dr_new checks its preconditions in the order: oracle not paused,
\* sender whitelisted (skipped when no whitelist was ever set), caller is the
\* payment token, amount >= validity_bond, then the payload rules in the order
\* description-or-sources, source count, minimum challenge period, maximum
\* challenge period, tag count, outcome count; the first violated check
\* determines the error, and on any failure no request is appended and no
\* state changes: a request is appended only by a call that violates no check.
C27_CheckOrder ==
    /\ [](\A sender \in {RequesterAccount, "alice"}, predecessor \in NewCallers,
             amount \in {0, 3}, payload \in RulePayloads :
             FirstViolated(sender, predecessor, amount, payload) # "" =>
                dr_new_err(sender, predecessor, amount, payload)
                  = FirstViolated(sender, predecessor, amount, payload))
    /\ [][Len(data_requests') # Len(data_requests) =>
            \E predecessor \in NewCallers, amount \in inputs.new_amounts,
               payload \in inputs.payloads :
               /\ FirstViolated(RequesterAccount, predecessor, amount, payload) = ""
               /\ data_requests' = Append(data_requests,
                      ActiveDataRequest_new(whitelist_get_expect(whitelist, RequesterAccount),
                                            Len(data_requests), Len(configs) - 1,
                                            get_config, amount - get_config.validity_bond,
                                            payload))]_vars

\* with a request created, the oracle unpaused and carol whitelisted, dr_new
\* accepts a payload of 264 sources, and answers a payload of 256 sources
\* without a description with the error of the description-or-sources rule
C27_TooManySourcesAccepted ==
    /\ ~paused
    /\ whitelist.some
    /\ Len(data_requests) = 1
    /\ dr_new_err(RequesterAccount, get_config.payment_token, 3,
                  Payload(SomeSources(264), FALSE, NoOutcomeList, 1, 0, TypeString,
                          NoProvider)) = ""
    /\ dr_new_err(RequesterAccount, get_config.payment_token, 3,
                  Payload(SomeSources(256), FALSE, NoOutcomeList, 1, 0, TypeString,
                          NoProvider))
         = "Description should be filled when no sources are given"

\* C28 -- a successful dr_new appends exactly one Active request whose id
\* equals the number of requests that existed before the call, with zero
\* windows, final_arbitrator_triggered false, paid_fee = amount - validity_bond
\* and config id equal to the index of the latest config; it returns 0 and
\* leaves every existing request unchanged, so request ids are sequential and
\* never reused.
C28_NewRequest ==
    /\ [](\A i \in Requests : data_requests[i].id = i - 1)
    /\ [][Len(data_requests') # Len(data_requests) =>
            /\ Len(data_requests') = Len(data_requests) + 1
            /\ \A i \in Requests : data_requests'[i] = data_requests[i]
            /\ LET dr == data_requests'[Len(data_requests) + 1]
               IN  /\ dr.kind = "Active"
                   /\ dr.id = Len(data_requests)
                   /\ dr.resolution_windows = <<>>
                   /\ dr.final_arbitrator_triggered = FALSE
                   /\ dr.global_config_id = Len(configs) - 1
                   /\ \E amount \in inputs.new_amounts, payload \in inputs.payloads :
                         /\ dr.request_config.paid_fee
                              = amount - configs[Len(configs)].validity_bond
                         /\ dr_new_returns(RequesterAccount, amount, payload) = 0]_vars

\* a second request was created after set_config, next to a first request
\* that was created before it and has been staked on
C28_Witness ==
    /\ Len(data_requests) = 2
    /\ data_requests[1].global_config_id = 0
    /\ Len(Windows(1)) > 0
    /\ data_requests[2].global_config_id = 1
    /\ data_requests[2].id = 1
    /\ IsActive(2)
    /\ data_requests[2].request_config.paid_fee = 2

\* C29 -- when the other preconditions of dr_new hold (oracle not paused,
\* sender whitelisted, caller is the payment token, amount >= validity_bond),
\* dr_new succeeds for every payload that satisfies all payload validation
\* rules; in particular a payload that has a description and carries no sources
\* at all is accepted and creates a request.
C29_ValidPayloadAccepted ==
    \A predecessor \in NewCallers, amount \in {0, 3}, payload \in RulePayloads :
        FirstViolated(RequesterAccount, predecessor, amount, payload) = "" =>
            dr_new_err(RequesterAccount, predecessor, amount, payload) = ""

\* with a request created and the oracle unpaused, dr_new by the payment
\* token with a sufficient amount fails on a payload that has a description and
\* no sources, and succeeds when the same payload carries an empty source list
C29_DescriptionOnlyRejected ==
    /\ ~paused
    /\ Len(data_requests) = 1
    /\ FirstViolated(RequesterAccount, get_config.payment_token, 3,
                     Payload(NoSources, TRUE, NoOutcomeList, 1, 0, TypeString, NoProvider)) = ""
    /\ dr_new_err(RequesterAccount, get_config.payment_token, 3,
                  Payload(NoSources, TRUE, NoOutcomeList, 1, 0, TypeString, NoProvider))
         = "called Option::unwrap on a None value"
    /\ dr_new_err(RequesterAccount, get_config.payment_token, 3,
                  Payload(SomeSources(0), TRUE, NoOutcomeList, 1, 0, TypeString, NoProvider))
         = ""

\* the config snapshot that request i is pinned to
PinnedConfig(i) == configs[data_requests[i].global_config_id + 1]

\* the tokens of the ft_transfer promises of the call recorded last
TokensOf(call) ==
    {call.promises[k].token : k \in {j \in DOMAIN call.promises :
                                       call.promises[j].kind = "ft_transfer"}}

\* C30 -- config pinning: set_config only appends a new config snapshot; it
\* never changes the config id or the pinned parameters (validity_bond,
\* paid_fee, final_arbitrator, final_arbitrator_invoke_amount,
\* default_challenge_window_duration, min_resolution_bond) of any existing
\* request, and stake, finalize and claim on an existing request keep using the
\* values and tokens of the config that was current when the request was
\* created: stakes come in on its stake token, the first bond and the
\* final-arbitrator trigger follow its values, and every transfer goes out on
\* its tokens.
C30_ConfigPinning ==
    /\ [](\A i \in Requests :
            /\ data_requests[i].global_config_id + 1 \in DOMAIN configs
            /\ IsActive(i) =>
                  LET c == data_requests[i].request_config
                      n == Len(Windows(i))
                  IN  /\ c.validity_bond = PinnedConfig(i).validity_bond
                      /\ c.final_arbitrator = PinnedConfig(i).final_arbitrator
                      /\ c.final_arbitrator_invoke_amount
                           = PinnedConfig(i).final_arbitrator_invoke_amount
                      /\ c.default_challenge_window_duration
                           = PinnedConfig(i).default_challenge_window_duration
                      /\ c.min_resolution_bond = PinnedConfig(i).min_resolution_bond
                      /\ n > 0 =>
                            /\ Windows(i)[1].bond_size
                                 = 2 * MaxOf({c.paid_fee, PinnedConfig(i).validity_bond,
                                              PinnedConfig(i).min_resolution_bond})
                            /\ data_requests[i].final_arbitrator_triggered
                                 <=> /\ Windows(i)[n].bonded_outcome # NoOutcome
                                     /\ Windows(i)[n].bond_size
                                          >= PinnedConfig(i).final_arbitrator_invoke_amount
                      /\ \A sender \in Stakers, amount \in inputs.stake_amounts,
                            outcome \in inputs.stake_outcomes,
                            predecessor \in {TokenAccount, NewTokenAccount, NewStakeAccount} :
                            dr_stake_err(sender, predecessor, amount, i - 1, outcome) = ""
                               => predecessor = PinnedConfig(i).stake_token)
    /\ [](call_log.op \in {"dr_unstake", "dr_claim", "dr_finalize",
                           "dr_final_arbitrator_finalize"} =>
            LET pinned == PinnedConfig(call_log.request_id + 1)
            IN  /\ call_log.op = "dr_unstake" => TokensOf(call_log) = {pinned.stake_token}
                /\ call_log.op = "dr_claim" =>
                      TokensOf(call_log) \subseteq {pinned.stake_token, pinned.payment_token}
                /\ call_log.op \in {"dr_finalize", "dr_final_arbitrator_finalize"} =>
                      /\ TokensOf(call_log) \subseteq {pinned.payment_token}
                      /\ \A k \in DOMAIN call_log.promises :
                            call_log.promises[k].kind = "ft_transfer" =>
                               call_log.promises[k].amount = pinned.validity_bond)
    /\ [][/\ \A k \in DOMAIN configs : k \in DOMAIN configs' /\ configs'[k] = configs[k]
          /\ configs' # configs =>
                /\ \E new_cfg \in inputs.new_configs : configs' = Append(configs, new_cfg)
                /\ data_requests' = data_requests
          /\ \A i \in Requests :
                /\ data_requests'[i].global_config_id = data_requests[i].global_config_id
                /\ IsActive(i) /\ data_requests'[i].kind = "Active" =>
                      data_requests'[i].request_config = data_requests[i].request_config
                /\ IsActive(i) /\ data_requests'[i].kind = "Finalized" =>
                      data_requests'[i].paid_fee = data_requests[i].request_config.paid_fee
                /\ IsFinalized(i) =>
                      data_requests'[i].paid_fee = data_requests[i].paid_fee]_vars

\* after set_config, stake was withdrawn from a request that was created
\* under the first config, and it was refunded on the first config's stake
\* token, which is not the current one
C30_Witness ==
    /\ Len(configs) = 2
    /\ call_log.op = "dr_unstake"
    /\ data_requests[call_log.request_id + 1].global_config_id = 0
    /\ TokensOf(call_log) = {configs[1].stake_token}
    /\ configs[1].stake_token # get_config.stake_token

\* C31 -- while the oracle is paused, dr_new, dr_stake, dr_unstake, dr_claim,
\* dr_finalize, dr_finalize_by_provider and dr_final_arbitrator_finalize all
\* fail, with the error of the pause check, and change no request state.
C31_Paused ==
    /\ [](paused =>
            /\ \A sender \in Accounts, predecessor \in NewCallers,
                  amount \in inputs.new_amounts, payload \in inputs.payloads :
                  dr_new_err(sender, predecessor, amount, payload) = "Oracle is paused"
            /\ \A id \in 0..Len(data_requests), account \in Accounts,
                  outcome \in Outcomes :
                  /\ \A predecessor \in {TokenAccount, NewStakeAccount},
                        amount \in inputs.stake_amounts :
                        dr_stake_err(account, predecessor, amount, id, outcome)
                          = "Oracle is paused"
                  /\ \A round \in 0..2, amount \in inputs.unstake_amounts :
                        dr_unstake_err(account, id, round, outcome, amount)
                          = "Oracle is paused"
                  /\ dr_claim_err(account, id) = "Oracle is paused"
                  /\ dr_finalize_err(id) = "Oracle is paused"
                  /\ dr_finalize_by_provider_err(account, id, outcome) = "Oracle is paused"
                  /\ dr_final_arbitrator_finalize_err(account, id, outcome)
                       = "Oracle is paused")
    /\ [][paused => /\ data_requests' = data_requests
                    /\ claim_log' = claim_log
                    /\ finalize_log' = finalize_log]_vars

\* the oracle is paused while a request exists that dr_finalize would
\* otherwise accept: two windows, the arbitrator not triggered, the last
\* window timed out
C31_Witness ==
    /\ paused
    /\ \E i \in Requests :
          /\ IsActive(i)
          /\ assert_can_finalize(data_requests[i], block_timestamp) = ""
          /\ get_final_outcome_err(data_requests[i]) = ""
          /\ dr_finalize_err(i - 1) = "Oracle is paused"

\* C32 -- dr_finalize_by_provider succeeds only on an Active request that was
\* created with a provider and only when the caller is that provider; it fails
\* on a request without a provider and for any other caller, leaving the
\* request Active; when it succeeds the request becomes Finalized with the
\* supplied outcome, and it requires no window, timeout or final-arbitrator
\* state: the provider's call with an outcome of the request's outcome list is
\* accepted on every Active request of that provider.
C32_FinalizeByProvider ==
    /\ [](\A id \in 0..Len(data_requests), predecessor \in Accounts, outcome \in Outcomes :
            LET i == id + 1
                err == dr_finalize_by_provider_err(predecessor, id, outcome)
            IN  /\ err = "" =>
                      /\ i \in Requests
                      /\ IsActive(i)
                      /\ data_requests[i].provider # NoProvider
                      /\ data_requests[i].provider = predecessor
                /\ i \in Requests /\ IsActive(i) /\ ~paused
                      /\ data_requests[i].provider = predecessor
                      /\ assert_valid_outcome(data_requests[i], outcome) = "" =>
                      err = "")
    /\ [][\A i \in Requests :
            (/\ finalize_log'[i] # finalize_log[i]
             /\ finalize_log'[i][Len(finalize_log'[i])].by = "dr_finalize_by_provider") =>
               /\ IsActive(i)
               /\ data_requests[i].provider # NoProvider
               /\ call_log'.op = "dr_finalize_by_provider"
               /\ call_log'.account = data_requests[i].provider
               /\ call_log'.request_id = i - 1
               /\ data_requests'[i].kind = "Finalized"
               /\ data_requests'[i].finalized_outcome = call_log'.outcome
               /\ data_requests'[i].resolution_windows = Windows(i)]_vars

\* the provider has finalized requests at both ends: one that nobody had
\* staked on, and the provider's call is also reached on a request whose final
\* arbitrator is triggered
C32_Witness ==
    \E i \in Requests :
        /\ IsFinalized(i)
        /\ Len(Windows(i)) = 0
        /\ call_log.op = "dr_finalize_by_provider"
        /\ call_log.account = "bob"
        /\ data_requests[i].finalized_outcome = call_log.outcome

\* the step executes a promise of the call recorded last, and the promise fails
PromiseFails ==
    /\ call_log.promises # <<>>
    /\ call_log'.promises = Tail(call_log.promises)
    /\ call_log'.op # call_log.op
    /\ call_log'.op = Failed(call_log.op)

\* the stake that account a holds on the bonded outcomes of the windows of
\* request i that are bonded on the final outcome
RecordedCorrectStake(i, a) ==
    SumOver(CorrectWindows(i),
            [k \in CorrectWindows(i) |->
                Windows(i)[k].user_to_outcome_to_stake[a][Windows(i)[k].bonded_outcome]])

\* C33 -- the state change made by dr_unstake, dr_claim, dr_finalize and
\* dr_final_arbitrator_finalize is committed in the call itself and is neither
\* rolled back nor retried when the outbound transfer or outcome notification
\* later fails: the failure changes no request and issues no promise; after a
\* failed claim transfer the claimant's stake record stays removed and a later
\* dr_claim for that account pays nothing, and a request stays Finalized when
\* its notification fails.
C33_CommittedBeforePromise ==
    /\ [][PromiseFails =>
            /\ data_requests' = data_requests
            /\ claim_log' = claim_log
            /\ finalize_log' = finalize_log]_vars
    /\ [](call_log.op = Failed("dr_claim") =>
            LET i == call_log.request_id + 1
            IN  /\ IsFinalized(i)
                /\ claim_log[i][call_log.account].n = 1
                /\ RecordedCorrectStake(i, call_log.account) = 0
                /\ dr_claim_err(call_log.account, call_log.request_id) = "can't claim 0")
    /\ [](call_log.op \in {Failed("dr_finalize"), Failed("dr_final_arbitrator_finalize")} =>
            /\ IsFinalized(call_log.request_id + 1)
            /\ Len(finalize_log[call_log.request_id + 1]) = 1)

\* the stake transfer of a claim has failed: the claimant had stake on the
\* final outcome, the claim is recorded once and the stake record is gone
C33_Witness ==
    /\ call_log.op = Failed("dr_claim")
    /\ claim_log[call_log.request_id + 1][call_log.account].stake > 0
    /\ RecordedCorrectStake(call_log.request_id + 1, call_log.account) = 0
    /\ dr_claim_err(call_log.account, call_log.request_id) = "can't claim 0"

\* the step is a dr_stake on request i: the request stays Active and gains a
\* window or stake on some outcome
StakeStep(i) ==
    /\ IsActive(i)
    /\ data_requests'[i].kind = "Active"
    /\ \/ Len(data_requests'[i].resolution_windows) > Len(Windows(i))
       \/ \E k \in DOMAIN Windows(i) : \E o \in Outcomes :
             data_requests'[i].resolution_windows[k].outcome_to_stake[o]
               > Windows(i)[k].outcome_to_stake[o]

\* the position of the window that a dr_stake on request i stakes into
StakedWindow(i) == IF Len(Windows(i)) = 0 THEN 1 ELSE Len(Windows(i))

\* a dr_stake on request i leaves every window but the one it stakes into as
\* it was, and every window behind that one is new and holds no stake
StakeFrame(i) ==
    /\ \A k \in DOMAIN Windows(i) :
          k # StakedWindow(i) => data_requests'[i].resolution_windows[k] = Windows(i)[k]
    /\ \A k \in DOMAIN data_requests'[i].resolution_windows :
          k > StakedWindow(i) =>
             LET w == data_requests'[i].resolution_windows[k]
             IN  /\ \A o \in Outcomes : w.outcome_to_stake[o] = 0
                 /\ \A a \in Accounts : \A o \in Outcomes : w.user_to_outcome_to_stake[a][o] = 0
                 /\ w.bonded_outcome = NoOutcome

\* C34 as stated -- a single dr_stake call changes the stake totals of exactly
\* one window, the one that was last when the call started (or the new round
\* 0), increases the number of windows by at most one, and any window it opens
\* starts with zero stake on every outcome.
C34_AsStated ==
    [][\A i \in Requests :
         StakeStep(i) =>
            /\ StakeFrame(i)
            /\ Len(data_requests'[i].resolution_windows) <= Len(Windows(i)) + 1]_vars

\* C34 -- a single dr_stake call changes the stake totals of exactly one
\* window, the one that was last when the call started (or the new round 0);
\* it opens at most one window behind the window it stakes into, so the number
\* of windows grows by at most one on a request that has windows and by at
\* most two on a request that has none (round 0 and, when the stake bonds it,
\* round 1); any window it opens behind the staked one starts with zero stake
\* on every outcome: the unspent excess is returned, never carried over.
C34_StakeFrame ==
    [][\A i \in Requests :
         StakeStep(i) =>
            /\ StakeFrame(i)
            /\ Len(data_requests'[i].resolution_windows) <= StakedWindow(i) + 1
            /\ Len(data_requests'[i].resolution_windows) > StakedWindow(i) =>
                  data_requests'[i].resolution_windows[StakedWindow(i)].bonded_outcome
                    # NoOutcome]_vars

\* one stake of 400 on a request without windows: round 0 (bond 200) is
\* created and bonded by alice alone, 200 are returned, and round 1 is open
\* with no stake
C34_Witness ==
    \E i \in Requests :
        /\ IsActive(i)
        /\ Len(Windows(i)) = 2
        /\ Windows(i)[1].bond_size = 200
        /\ Windows(i)[1].bonded_outcome = OutA
        /\ Windows(i)[1].user_to_outcome_to_stake["alice"][OutA] = 200
        /\ stake_log.unspent = 200
        /\ \A o \in Outcomes : Windows(i)[2].outcome_to_stake[o] = 0

\* C35 -- solvency per request: the stake tokens sent out for a request (the
\* unspent part returned by dr_stake, the refunds of dr_unstake and the stake
\* payouts of dr_claim) never exceed the stake tokens dr_stake received for it,
\* and the payment tokens sent out (the fee payouts of dr_claim and the returned
\* validity bond) never exceed the amount dr_new received.
C35_Solvency ==
    /\ Len(ledger) = Len(data_requests)
    /\ \A i \in Requests :
          /\ ledger[i].stake >= 0
          /\ ledger[i].payment >= 0

\* a request paid with a fee whose validity bond went back to the requester,
\* whose stakers were paid stake and fee by dr_claim, and that holds none of
\* the payment tokens any more
C35_Witness ==
    \E i \in Requests :
        /\ IsFinalized(i)
        /\ FeePaid(i) > 0
        /\ StakePaid(i) > 0
        /\ ledger[i].payment = 0

\* the stake that the accounts hold on outcome o in window w, summed
UserStakeSum(w, o) ==
    SumOver(Accounts, [a \in Accounts |-> w.user_to_outcome_to_stake[a][o]])

\* the number of claims dr_claim has paid on request i
ClaimsPaid(i) == SumOver(Accounts, [a \in Accounts |-> claim_log[i][a].n])

\* what the total of outcome o in window k of request i exceeds the accounts'
\* stakes on it by
StakeDeficit(dr, k, o) ==
    dr.resolution_windows[k].outcome_to_stake[o] - UserStakeSum(dr.resolution_windows[k], o)

\* C36 -- in every state reached by stake and unstake calls, for every window
\* and outcome, the total staked on the outcome equals the sum over accounts of
\* their stake on it; the only operation that breaks the equality is dr_claim,
\* which removes the claimant's entry on the bonded outcome and leaves the total.
C36_StakeTotals ==
    /\ [](\A i \in Requests : \A k \in DOMAIN Windows(i) : \A o \in Outcomes :
            /\ ClaimsPaid(i) = 0 => StakeDeficit(data_requests[i], k, o) = 0
            /\ StakeDeficit(data_requests[i], k, o) >= 0
            /\ StakeDeficit(data_requests[i], k, o) > 0 =>
                   /\ IsFinalized(i)
                   /\ o = Windows(i)[k].bonded_outcome
                   /\ o = data_requests[i].finalized_outcome)
    /\ [][\A i \in Requests : \A k \in DOMAIN Windows(i) : \A o \in Outcomes :
            StakeDeficit(data_requests'[i], k, o) # StakeDeficit(data_requests[i], k, o) =>
               /\ IsFinalized(i)
               /\ ClaimsPaid(i)' = ClaimsPaid(i) + 1
               /\ o = Windows(i)[k].bonded_outcome
               /\ data_requests'[i].resolution_windows[k].outcome_to_stake
                    = Windows(i)[k].outcome_to_stake]_vars

\* a finalized request on which a claim has removed stake from under the total
\* of a bonded outcome, while another outcome still holds stake that equals
\* the sum of the accounts' stakes on it
C36_Witness ==
    \E i \in Requests :
        /\ IsFinalized(i)
        /\ \E k \in DOMAIN Windows(i) :
              /\ Windows(i)[k].bonded_outcome # NoOutcome
              /\ StakeDeficit(data_requests[i], k, Windows(i)[k].bonded_outcome) > 0
        /\ \E k \in DOMAIN Windows(i) : \E o \in Outcomes :
              /\ Windows(i)[k].outcome_to_stake[o] > 0
              /\ StakeDeficit(data_requests[i], k, o) = 0
              /\ \E a, b \in Accounts :
                    /\ a # b
                    /\ Windows(i)[k].user_to_outcome_to_stake[a][o] > 0
                    /\ Windows(i)[k].user_to_outcome_to_stake[b][o] > 0

\* C37 -- for every window that follows another window, the total staked on
\* the earlier window's bonded outcome inside the later window is zero; hence
\* the bonded outcomes of consecutive bonded windows differ.
C37_NoStakeOnPreviousOutcome ==
    \A i \in Requests : \A k \in DOMAIN Windows(i) :
        k + 1 \in DOMAIN Windows(i) =>
           /\ Windows(i)[k].bonded_outcome # NoOutcome
           /\ Windows(i)[k + 1].outcome_to_stake[Windows(i)[k].bonded_outcome] = 0
           /\ UserStakeSum(Windows(i)[k + 1], Windows(i)[k].bonded_outcome) = 0
           /\ Windows(i)[k + 1].bonded_outcome # Windows(i)[k].bonded_outcome

\* round 0 and round 1 of a request are both bonded
C37_Witness ==
    \E i \in Requests :
        /\ Len(Windows(i)) >= 2
        /\ Windows(i)[1].bonded_outcome # NoOutcome
        /\ Windows(i)[2].bonded_outcome # NoOutcome
        /\ TotalStake(Windows(i)[2]) = Windows(i)[2].bond_size

\* the smallest i with b0 * 2^i >= amount, for b0 > 0
RECURSIVE MinDoublings(_, _)
MinDoublings(b0, amount) ==
    IF b0 >= amount THEN 0 ELSE 1 + MinDoublings(2 * b0, amount)

\* final_arbitrator_invoke_amount of the config that request i was created under
InvokeAmountOf(i) == PinnedConfig(i).final_arbitrator_invoke_amount

\* C38 -- escalation is bounded: every window except the last has bond_size
\* below final_arbitrator_invoke_amount, so for a request whose round-0
\* bond_size b0 is positive the number of windows never exceeds 1 + the
\* smallest i with b0 * 2^i >= final_arbitrator_invoke_amount; the number of
\* bonding stakes is bounded by the same number, and the stake that bonds a
\* window of at least that bond_size triggers the final arbitrator, after
\* which every dr_stake on the request fails.
C38_EscalationBounded ==
    \A i \in Requests :
        Len(Windows(i)) >= 1 =>
           LET n == Len(Windows(i))
               b0 == Windows(i)[1].bond_size
           IN  /\ \A k \in 1 .. n - 1 : Windows(i)[k].bond_size < InvokeAmountOf(i)
               /\ b0 > 0
               /\ n <= 1 + MinDoublings(b0, InvokeAmountOf(i))
               /\ Cardinality(BondedWindows(i)) <= 1 + MinDoublings(b0, InvokeAmountOf(i))
               /\ IsActive(i) =>
                     /\ data_requests[i].final_arbitrator_triggered
                           <=> /\ Windows(i)[n].bonded_outcome # NoOutcome
                               /\ Windows(i)[n].bond_size >= InvokeAmountOf(i)
                     /\ Windows(i)[n].bonded_outcome # NoOutcome =>
                           \A sender \in Accounts, amount \in inputs.stake_amounts,
                              outcome \in inputs.stake_outcomes :
                                dr_stake_err(sender, PinnedConfig(i).stake_token, amount,
                                             i - 1, outcome)
                                  = "Final arbitrator is invoked for DataRequest"

\* a request escalated as far as it can be: it has 1 + the smallest number of
\* doublings that reach final_arbitrator_invoke_amount windows, at least two,
\* the last one is bonded and the final arbitrator is triggered
C38_Witness ==
    \E i \in Requests :
        /\ IsActive(i)
        /\ Len(Windows(i)) >= 2
        /\ Len(Windows(i)) = 1 + MinDoublings(Windows(i)[1].bond_size, InvokeAmountOf(i))
        /\ Windows(i)[Len(Windows(i))].bonded_outcome # NoOutcome
        /\ data_requests[i].final_arbitrator_triggered

\* accounts a and b hold the same stake on the bonded outcome of every bonded
\* window of request i
EqualBondedStake(i, a, b) ==
    \A k \in BondedWindows(i) :
        Windows(i)[k].user_to_outcome_to_stake[a][Windows(i)[k].bonded_outcome]
          = Windows(i)[k].user_to_outcome_to_stake[b][Windows(i)[k].bonded_outcome]

\* C39 -- claims of different accounts are independent: on a Finalized request
\* the payout that claim returns for an account is the same whether or not
\* other accounts have already claimed or unstaked (no step but the account's
\* own claim changes it), so claims by different accounts commute, and two
\* accounts with equal stake on the bonded outcomes of the same windows receive
\* equal payouts.
C39_ClaimsIndependent ==
    /\ [](\A i \in Requests : \A a, b \in Accounts :
            (IsFinalized(i) /\ a # b) =>
               /\ FinalizedDataRequest_claim(ClaimOf(i, b).dr, a).res = ClaimOf(i, a).res
               /\ FinalizedDataRequest_claim(ClaimOf(i, b).dr, a).dr
                    = FinalizedDataRequest_claim(ClaimOf(i, a).dr, b).dr
               /\ EqualBondedStake(i, a, b) => ClaimOf(i, a).res = ClaimOf(i, b).res)
    /\ [][\A i \in Requests : \A a \in Accounts :
            (IsFinalized(i) /\ claim_log'[i][a] = claim_log[i][a]) =>
               FinalizedDataRequest_claim(data_requests'[i], a).res = ClaimOf(i, a).res]_vars

\* on a request with a correct and an incorrect bonded window, one staker has
\* been paid by dr_claim and the other, who has not claimed yet, is due
\* exactly the same stake and fee payout
C39_Witness ==
    \E i \in Requests : \E a, b \in Stakers :
        /\ IsFinalized(i)
        /\ a # b
        /\ IncorrectWindows(i) # {}
        /\ claim_log[i][b].n = 1
        /\ claim_log[i][a].n = 0
        /\ ClaimOf(i, a).res.stake_token_payout > 0
        /\ ClaimOf(i, a).res.stake_token_payout = claim_log[i][b].stake
        /\ ClaimOf(i, a).res.payment_token_payout = claim_log[i][b].fee

\* dr_finalize is enabled for request i: it is Active with at least two
\* windows, the final arbitrator is not triggered and the last window's
\* end_time has passed
FinalizeEnabled(i) == IsActive(i) /\ dr_finalize_err(i - 1) = ""

\* C40 -- a window's round, start_time, end_time and bond_size never change
\* after the window is created, and dr_stake is accepted at any time, also after
\* the last window's end_time; therefore once dr_finalize is enabled for a
\* request it stays enabled, for as long as the request is Active, as time
\* advances and through partial stakes and unstakes, and the only operation
\* that disables it again is a dr_stake that bonds the last window, which opens
\* a new window with a later end_time or triggers the final arbitrator.
C40_FinalizeStaysEnabled ==
    /\ [](\A i \in Requests :
            FinalizeEnabled(i) =>
               \E outcome \in inputs.stake_outcomes :
                  \A sender \in Stakers, amount \in inputs.stake_amounts :
                     dr_stake_err(sender, PinnedConfig(i).stake_token, amount, i - 1, outcome)
                       = "")
    /\ [][\A i \in Requests :
            LET n == Len(Windows(i))
                after == data_requests'[i].resolution_windows
            IN  /\ Len(after) >= n
                /\ \A k \in DOMAIN Windows(i) :
                      /\ after[k].round = Windows(i)[k].round
                      /\ after[k].start_time = Windows(i)[k].start_time
                      /\ after[k].end_time = Windows(i)[k].end_time
                      /\ after[k].bond_size = Windows(i)[k].bond_size
                /\ (/\ FinalizeEnabled(i)
                    /\ data_requests'[i].kind = "Active"
                    /\ ~FinalizeEnabled(i)') =>
                      /\ StakeStep(i)
                      /\ Windows(i)[n].bonded_outcome = NoOutcome
                      /\ after[n].bonded_outcome # NoOutcome
                      /\ \/ data_requests'[i].final_arbitrator_triggered
                         \/ /\ Len(after) = n + 1
                            /\ after[n + 1].end_time > Windows(i)[n].end_time
                            /\ after[n + 1].end_time > block_timestamp']_vars

\* round 1 was bonded by a stake made when its end_time had passed and
\* dr_finalize was enabled; the stake opened round 2, whose end_time is still
\* ahead, so dr_finalize is disabled again
C40_Witness ==
    \E i \in Requests :
        /\ IsActive(i)
        /\ Len(Windows(i)) = 3
        /\ Windows(i)[3].start_time >= Windows(i)[2].end_time
        /\ ~data_requests[i].final_arbitrator_triggered
        /\ block_timestamp < Windows(i)[3].end_time
        /\ ~FinalizeEnabled(i)
====
